---- MODULE Spec2Model ----
(***************************************************************************)
(* A model of cavibe's spectral analyzer (src/audio/fft.rs) and of its     *)
(* pixel renderer (src/renderer/{mod,layout,styles,text}.rs).              *)
(*                                                                         *)
(* f32 values are modelled in fixed point.  A magnitude, an opacity or an  *)
(* intensity m stands for m / Scale; a product is truncated the way an     *)
(* `as usize` / `as u8` cast truncates.  NaN is a value of its own: every  *)
(* ordered comparison with it is false and f32::min / f32::max skip it.    *)
(***************************************************************************)
EXTENDS Integers, Sequences, FiniteSets, TLC

VARIABLES
    \* FrequencyAnalyzer (src/audio/fft.rs)
    num_bars,            \* self.num_bars
    smoothing,           \* self.smoothing, in units of 1/SmoothingDen
    sensitivity,         \* self.sensitivity, in units of 1/SensitivityDen
    buffer,              \* self.buffer after the forward FFT (bin norms)
    previous_magnitudes, \* self.previous_magnitudes
    audio_data,          \* the AudioData the last process call returned
    calls,               \* number of process calls so far
    last_len,            \* samples.len() of the last process call
    prev_returned,       \* frequencies returned by the call before the last
    \* Canvas (src/renderer/mod.rs)
    canvas,              \* [data, width, height]: the Canvas struct
    dest,                \* the slice write_argb8888 last wrote into
    last_op,             \* the last Canvas operation and its arguments
    pre_canvas,          \* the Canvas before the last operation
    ops,                 \* number of Canvas operations so far
    \* compute_bar_layout (src/renderer/layout.rs)
    layout_args,         \* [width, height, frequencies, params] of the call
    layout,              \* the Option<BarLayout> the call returned
    layout_calls,        \* number of compute_bar_layout calls so far
    \* render_frame (src/renderer/mod.rs, styles.rs, text.rs)
    frame_data,          \* the FrameData of the render_frame calls
    render_params,       \* the RenderParams of the last render_frame call
    bar_pixels,          \* put_pixel calls render_bars made in the last call
    erased,              \* the last call zeroed a pixel another style had set
    \* VisualizerState (src/visualizer/mod.rs)
    visualizer_config,   \* VisualizerState.visualizer_config: [style]
    text_animator,       \* VisualizerState.text_animator: the TextAnimator
    current_style,       \* VisualizerState.current_style
    state_time,          \* VisualizerState.time, in 1/Scale seconds
    style_trace,         \* the last two next_style / prev_style calls
    \* calculate_bar_magnitudes' bin ranges (src/audio/fft.rs)
    bin_bars,            \* self.num_bars of the analyzer the ranges are of
    bin_rate,            \* self.sample_rate of that analyzer, in Hz
    bin_ranges,          \* [start, end] of each bar of the lower half
    \* ColorScheme::get_color (src/color.rs)
    color_in,            \* [scheme, position, intensity] of the last call
    color_out,           \* the (r, g, b) the last call returned
    color_prev,          \* [in, out] of the call before the last
    \* the host's frame loop (src/display/{terminal,wayland,wallpaper}.rs)
    spectrogram_history, \* the host's rolling Vec of frequency snapshots
    history_height,      \* the canvas height of the last frame
    pushed,              \* every snapshot pushed so far, oldest first
    \* the IPC server and the render loop of the direct mode (src/ipc.rs,
    \* src/display/wallpaper.rs)
    ipc_clients,         \* per connection: pc, line, written responses
    ipc_queue,           \* the mpsc channel of IpcCommand values
    ipc_replies,         \* per connection: what was sent on its oneshot channel
    ipc_forwarded,       \* per connection: the commands put on the mpsc channel
    render_loop,         \* the loop's status and the state the commands mutate
    \* the Wayland loop (src/display/wayland.rs)
    wl_active,           \* WallpaperState.active
    wl_audio,            \* whether the latest AudioData exceeds the threshold
    wl_surfaces,         \* per output: configured, frame callbacks outstanding
    wl_kicked,           \* the surfaces kick-started by a resume and not drawn since
    wl_redrawn,          \* the surfaces drawn by a frame callback since the resume
    \* the capture thread and its watch channel (src/audio/capture.rs)
    cap_pc,              \* where the capture loop is: top, read, send, exited
    stop_flag,           \* AudioCapture.stop_flag
    cap_receivers,       \* the watch receivers alive
    cap_channel,         \* the value of the watch channel
    cap_data,            \* the AudioData the loop is about to send
    cap_sent,            \* the number of the last AudioData sent
    cap_seen,            \* what the reader's last borrow saw, and cap_sent then
    cap_after            \* iterations begun since the stop flag was set or the
                         \* last receiver dropped

analyzer_vars == <<num_bars, smoothing, sensitivity, buffer, previous_magnitudes,
                   audio_data, calls, last_len, prev_returned>>

canvas_vars == <<canvas, dest, last_op, pre_canvas, ops>>

layout_vars == <<layout_args, layout, layout_calls>>

render_vars == <<frame_data, render_params, bar_pixels, erased>>

visualizer_vars == <<visualizer_config, text_animator, current_style,
                     state_time, style_trace>>

bins_vars == <<bin_bars, bin_rate, bin_ranges>>

color_vars == <<color_in, color_out, color_prev>>

history_vars == <<spectrogram_history, history_height, pushed>>

ipc_vars == <<ipc_clients, ipc_queue, ipc_replies, ipc_forwarded, render_loop>>

wayland_vars == <<wl_active, wl_audio, wl_surfaces, wl_kicked, wl_redrawn>>

capture_vars == <<cap_pc, stop_flag, cap_receivers, cap_channel, cap_data,
                  cap_sent, cap_seen, cap_after>>

\* the components a specification of one of the others leaves alone
other_vars == <<bins_vars, color_vars, history_vars, ipc_vars, wayland_vars, capture_vars>>

vars == <<analyzer_vars, canvas_vars, layout_vars, render_vars, visualizer_vars,
          other_vars>>

BinsIdle ==
    /\ bin_bars = 0
    /\ bin_rate = 0
    /\ bin_ranges = <<>>

\* no get_color call yet
NoColorCall == [scheme |-> "none", position |-> 0, intensity |-> 0]

ColorIdle ==
    /\ color_in = NoColorCall
    /\ color_out = <<0, 0, 0>>
    /\ color_prev = [in |-> NoColorCall, out |-> <<0, 0, 0>>]

HistoryIdle ==
    /\ spectrogram_history = <<>>
    /\ history_height = 0
    /\ pushed = <<>>

\* connections handle_client can serve at the same time
MaxClients == 2

\* a connection that was not accepted yet
NoClient == [pc |-> "idle", line |-> <<>>, written |-> <<>>]

\* run_direct_mode before its loop (wallpaper.rs 179-195) with the
\* configuration's defaults
LoopStart ==
    [status |-> "running", handled |-> 0,
     style |-> 0, color |-> 0, visible |-> TRUE, opacity |-> 100,
     show_title |-> TRUE, show_artist |-> TRUE, position |-> "bottom",
     font_style |-> "normal", animation_style |-> "scroll",
     layer |-> "background", anchor |-> "fullscreen", margins |-> <<0, 0, 0, 0>>,
     draggable |-> FALSE, source |-> "default",
     pending |-> [layer_change |-> FALSE, surface_update |-> FALSE,
                  drag_changed |-> FALSE, save_config |-> FALSE]]

IpcIdle ==
    /\ ipc_clients = [c \in 1..MaxClients |-> NoClient]
    /\ ipc_queue = <<>>
    /\ ipc_replies = [c \in 1..MaxClients |-> <<>>]
    /\ ipc_forwarded = [c \in 1..MaxClients |-> 0]
    /\ render_loop = LoopStart

\* the outputs, each with one layer surface
MaxSurfaces == 2

\* create_surface_for_output: configured: false, no frame callback requested
NewSurface == [configured |-> FALSE, outstanding |-> 0]

\* WallpaperState::new (active: true) with a surface per output
WaylandIdle ==
    /\ wl_active = TRUE
    /\ wl_audio = FALSE
    /\ wl_surfaces = [o \in 1..MaxSurfaces |-> NewSurface]
    /\ wl_kicked = {}
    /\ wl_redrawn = {}

\* create_audio_pipeline: watch::channel(AudioData::default()), named 0, one
\* receiver, the stop flag clear and the thread at the top of capture_loop
CaptureIdle ==
    /\ cap_pc = "top"
    /\ stop_flag = FALSE
    /\ cap_receivers = 1
    /\ cap_channel = 0
    /\ cap_data = 0
    /\ cap_sent = 0
    /\ cap_seen = <<0, 0>>
    /\ cap_after = 0

OthersIdle == BinsIdle /\ ColorIdle /\ HistoryIdle /\ IpcIdle /\ WaylandIdle /\ CaptureIdle

-----------------------------------------------------------------------------
(* Bounds of the model.                                                    *)

MaxBars == 5
MaxCalls == 3
MaxDim == 2
MaxOps == 3
MaxWidth == 6
MaxBarWidth == 2
MaxCanvas == 4
MaxTime == 6
Scale == 100
SmoothingDen == 10
SensitivityDen == 10

-----------------------------------------------------------------------------
(* Arithmetic helpers.                                                     *)

NaN == 0 - 1

Min(a, b) == IF a < b THEN a ELSE b

Max(a, b) == IF a > b THEN a ELSE b

\* f32::min(self, other): the non-NaN operand when one of them is NaN.
f32_min(a, b) == IF a = NaN THEN b ELSE IF b = NaN THEN a ELSE Min(a, b)

\* f32 addition: NaN is absorbing.
f32_add(a, b) == IF a = NaN \/ b = NaN THEN NaN ELSE a + b

RECURSIVE SumSeq(_)
\* iter().sum::<f32>() of a sequence of fixed-point values
SumSeq(s) == IF s = <<>> THEN 0 ELSE f32_add(s[1], SumSeq(Tail(s)))

\* sum / len as f32: 0.0 / 0.0 is NaN.
f32_mean(sum, len) ==
    IF sum = NaN THEN NaN
    ELSE IF len = 0 THEN NaN
    ELSE sum \div len

-----------------------------------------------------------------------------
(* FrequencyAnalyzer: constants of src/audio/fft.rs.                       *)

fft_size == 2048
min_freq == 50
max_freq == 10000
sample_rate == 44100
base_scale_num == 2
base_scale_den == 100

useful_bins == fft_size \div 2

\* min_freq * (max_freq / min_freq).powf(k / half_bars), in 1/16 Hz, for the
\* band boundary k of half_bars bands (f32 powf, tabulated).
FreqTable ==
    <<  <<800, 160000>>,
        <<800, 11313, 160000>>,
        <<800, 4678, 27359, 160000>>,
        <<800, 3008, 11313, 42546, 160000>>,
        <<800, 2308, 6660, 19217, 55451, 160000>>,
        <<800, 1934, 4678, 11313, 27359, 66162, 160000>>,
        <<800, 1705, 3635, 7749, 16518, 35211, 75058, 160000>>,
        <<800, 1551, 3008, 5834, 11313, 21939, 42546, 82507, 160000>> >>

\* the same table for max_freq = 4000 Hz (a sample rate of 8000 Hz)
FreqTable4000 ==
    <<  <<800, 64000>>,
        <<800, 7155, 64000>>,
        <<800, 3447, 14853, 64000>>,
        <<800, 2392, 7155, 21399, 64000>>,
        <<800, 1921, 4616, 11090, 26641, 64000>>,
        <<800, 1660, 3447, 7155, 14853, 30831, 64000>>,
        <<800, 1496, 2797, 5232, 9785, 18299, 34222, 64000>>,
        <<800, 1383, 2392, 4137, 7155, 12374, 21399, 37007, 64000>> >>

\* the same table for max_freq = 30 Hz (a sample rate of 60 Hz), below
\* min_freq: the boundaries fall
FreqTable30 ==
    <<  <<800, 480>>,
        <<800, 619, 480>>,
        <<800, 674, 569, 480>>,
        <<800, 704, 619, 545, 480>>,
        <<800, 722, 652, 588, 531, 480>>,
        <<800, 734, 674, 619, 569, 522, 480>>,
        <<800, 743, 691, 642, 597, 555, 516, 480>>,
        <<800, 750, 704, 660, 619, 581, 545, 511, 480>> >>

\* the sample rates the bin ranges are tabulated for, in Hz
SampleRates == {60, 8000, 22050, sample_rate, 96000}

\* 10000.0_f32.min(self.sample_rate / 2.0)
max_freq_at(rate) == Min(max_freq, rate \div 2)

\* the band boundary k of half_bars bands at a sample rate, in 1/16 Hz
freq_boundary_at(rate, k, half_bars) ==
    CASE max_freq_at(rate) = 30 -> FreqTable30[half_bars][k + 1]
      [] max_freq_at(rate) = 4000 -> FreqTable4000[half_bars][k + 1]
      [] OTHER -> FreqTable[half_bars][k + 1]

\* bin_start without .min(useful_bins - 1)
bin_start_unclamped(rate, bar, half_bars) ==
    (freq_boundary_at(rate, bar, half_bars) * fft_size) \div (rate * 16)

\* ((freq_start * fft_size) / sample_rate).floor(), then .min(useful_bins - 1)
bin_start_at(rate, bar, half_bars) ==
    Min((freq_boundary_at(rate, bar, half_bars) * fft_size) \div (rate * 16),
        useful_bins - 1)

\* ((freq_end * fft_size) / sample_rate).ceil(), then
\* .min(useful_bins).max(bin_start + 1)
bin_end_at(rate, bar, half_bars) ==
    LET num == freq_boundary_at(rate, bar + 1, half_bars) * fft_size
        den == rate * 16
        ceil == (num + den - 1) \div den
    IN  Max(Min(ceil, useful_bins), bin_start_at(rate, bar, half_bars) + 1)

\* the boundaries and bin ranges of the analyzer the host builds (44100 Hz)
freq_boundary(k, half_bars) == freq_boundary_at(sample_rate, k, half_bars)

bin_start(bar, half_bars) == bin_start_at(sample_rate, bar, half_bars)

bin_end(bar, half_bars) == bin_end_at(sample_rate, bar, half_bars)

-----------------------------------------------------------------------------
(* The sample block and its spectrum.  A block is given by its length and  *)
(* by the bin norms |buffer[bin]| the windowed forward FFT produces for    *)
(* it: a flat floor `base` plus one spectral line `peak` at `peak_bin`, or *)
(* NaN in every bin (a block holding a NaN or infinite sample).            *)

Spectrum(nan, base, peak_bin, peak) ==
    [nan |-> nan, base |-> base, peak_bin |-> peak_bin, peak |-> peak]

ZeroSpectrum == Spectrum(FALSE, 0, 0, 0)

PeakBins == {3, 40, 200}

Spectra ==
    {ZeroSpectrum, Spectrum(TRUE, 0, 0, 0), Spectrum(FALSE, 30, 0, 0)}
    \cup {Spectrum(FALSE, 0, k, p) : k \in PeakBins, p \in {20, 600}}

\* samples: an empty block (zero-padded to silence) or a full block
SampleBlocks ==
    {[len |-> 0, spectrum |-> ZeroSpectrum]}
    \cup {[len |-> fft_size, spectrum |-> s] : s \in Spectra}

\* self.buffer[bin].norm()
norm(buf, bin) ==
    IF buf.nan THEN NaN
    ELSE IF bin = buf.peak_bin THEN buf.base + buf.peak
    ELSE buf.base

\* for bin in bin_start..bin_end { sum += self.buffer[bin].norm() }
sum_norms(buf, lo, hi) ==
    IF buf.nan THEN NaN
    ELSE buf.base * (hi - lo)
         + (IF lo <= buf.peak_bin /\ buf.peak_bin < hi THEN buf.peak ELSE 0)

-----------------------------------------------------------------------------
(* FrequencyAnalyzer::calculate_bar_magnitudes (fft.rs 82-134).            *)

\* (avg * 0.02 * self.sensitivity).min(1.0) without the clamp
scaled_magnitude(buf, sens, bar, half_bars) ==
    LET lo == bin_start(bar, half_bars)
        hi == bin_end(bar, half_bars)
        sum == sum_norms(buf, lo, hi)
        avg == IF sum = NaN THEN NaN ELSE (sum * Scale) \div (hi - lo)
    IN  IF avg = NaN THEN NaN
        ELSE (avg * base_scale_num * sens) \div (base_scale_den * SensitivityDen)

\* half_magnitudes[bar]
half_magnitude_unclamped(buf, sens, bar, half_bars) ==
    scaled_magnitude(buf, sens, bar, half_bars)

half_magnitude(buf, sens, bar, half_bars) ==
    f32_min(scaled_magnitude(buf, sens, bar, half_bars), Scale)

\* half_magnitudes as a sequence (index bar + 1)
half_magnitudes(buf, sens, n) ==
    [b \in 1..(n \div 2) |-> half_magnitude(buf, sens, b - 1, n \div 2)]

RECURSIVE mirror_loop_repeated(_, _, _, _)
\* the loop writing both halves in the order of the bands
mirror_loop_repeated(i, half_bars, hm, bm) ==
    IF i >= half_bars THEN bm
    ELSE mirror_loop_repeated(i + 1, half_bars, hm,
                              [bm EXCEPT ![i + 1] = hm[i + 1],
                                         ![half_bars + i + 1] = hm[i + 1]])

RECURSIVE mirror_loop(_, _, _, _)
\* for i in 0..half_bars { bar_magnitudes[half_bars - 1 - i] = half_magnitudes[i];
\*                         bar_magnitudes[half_bars + i] = half_magnitudes[i]; }
\* (sequences are 1-based: Rust index j is position j + 1)
mirror_loop(i, half_bars, hm, bm) ==
    IF i >= half_bars THEN bm
    ELSE mirror_loop(i + 1, half_bars, hm,
                     [bm EXCEPT ![half_bars - 1 - i + 1] = hm[i + 1],
                                ![half_bars + i + 1] = hm[i + 1]])

calculate_bar_magnitudes(buf, sens, n) ==
    mirror_loop(0, n \div 2, half_magnitudes(buf, sens, n), [j \in 1..n |-> 0])

-----------------------------------------------------------------------------
(* Canvas (src/renderer/mod.rs 19-94).  data is the RGBA byte vector; Rust  *)
(* index i is position i + 1 of the sequence.                              *)

\* `x as u8` of a non-negative f32: truncates and saturates at 255
as_u8(v) == IF v < 0 THEN 0 ELSE IF v > 255 THEN 255 ELSE v

\* vec![0u8; n]
zeros(n) == [i \in 1..n |-> 0]

Canvas_new(width, height) ==
    [data |-> zeros(width * height * 4), width |-> width, height |-> height]

\* Canvas::resize that always fits the buffer to the new dimensions
resize_to_fit(c, width, height) ==
    LET needed == width * height * 4
    IN  [data |-> [i \in 1..needed |-> IF i <= Len(c.data) THEN c.data[i] ELSE 0],
         width |-> width,
         height |-> height]

\* Canvas::resize: reallocates only when the buffer is too small
resize(c, width, height) ==
    LET needed == width * height * 4
    IN  [data |-> IF Len(c.data) < needed
                  THEN c.data \o zeros(needed - Len(c.data))
                  ELSE c.data,
         width |-> width,
         height |-> height]

\* Canvas::clear without the fill
clear_nothing(c) == c

\* Canvas::clear: self.data[..width * height * 4].fill(0)
clear(c) ==
    [c EXCEPT !.data = [i \in 1..Len(c.data) |->
                           IF i <= c.width * c.height * 4 THEN 0 ELSE c.data[i]]]

\* Canvas::put_pixel
put_pixel(c, x, y, r, g, b, opacity) ==
    LET idx == (y * c.width + x) * 4
    IN  IF idx + 3 < Len(c.data)
        THEN [c EXCEPT !.data = [@ EXCEPT
                 ![idx + 1] = as_u8((r * opacity) \div Scale),
                 ![idx + 2] = as_u8((g * opacity) \div Scale),
                 ![idx + 3] = as_u8((b * opacity) \div Scale),
                 ![idx + 4] = as_u8((opacity * 255) \div Scale)]]
        ELSE c

\* Canvas::get_pixel
get_pixel(c, x, y) ==
    LET idx == (y * c.width + x) * 4
    IN  IF idx + 3 < Len(c.data)
        THEN <<c.data[idx + 1], c.data[idx + 2], c.data[idx + 3], c.data[idx + 4]>>
        ELSE <<0, 0, 0, 0>>

\* Canvas::write_argb8888 copying the bytes in RGBA order
write_argb8888_unswapped(c, d) ==
    [k \in 1..Len(d) |-> IF k <= c.width * c.height * 4 THEN c.data[k] ELSE d[k]]

\* Canvas::write_argb8888: for each pixel i, dest[4i..4i+4] = [b, g, r, a]
write_argb8888(c, d) ==
    [k \in 1..Len(d) |->
        IF k <= c.width * c.height * 4
        THEN LET si == ((k - 1) \div 4) * 4
                 ch == (k - 1) % 4
             IN  CASE ch = 0 -> c.data[si + 3]
                   [] ch = 1 -> c.data[si + 2]
                   [] ch = 2 -> c.data[si + 1]
                   [] OTHER  -> c.data[si + 4]
        ELSE d[k]]

\* the byte a destination buffer holds before write_argb8888 is called
DestFill == 170

\* (r, g, b, opacity) arguments of put_pixel
Paints ==
    {[r |-> 255, g |-> 128, b |-> 64, opacity |-> Scale],
     [r |-> 10, g |-> 200, b |-> 90, opacity |-> Scale \div 2]}

NoOp == [op |-> "none", x |-> 0, y |-> 0]

CanvasIdle ==
    /\ canvas = Canvas_new(0, 0)
    /\ dest = <<>>
    /\ last_op = NoOp
    /\ pre_canvas = Canvas_new(0, 0)
    /\ ops = 0

-----------------------------------------------------------------------------
(* compute_bar_layout (layout.rs 16-100).                                  *)

\* the rows reserved for text when a title or an artist is shown
text_band == 60

\* an Option<RgbColor> that is None
NoRgb == [some |-> FALSE, r |-> 0, g |-> 0, b |-> 0]

\* CoordValue::Pixels(px)
Pixels(px) == [kind |-> "Pixels", value |-> px]

\* CoordValue::Percent(pct)
Percent(pct) == [kind |-> "Percent", value |-> pct]

\* Config::default().text with both show flags off, as the terminal host
\* passes it; coord_x and coord_y are read under position = "Coordinates"
TextOff ==
    [show_title |-> FALSE, show_artist |-> FALSE,
     animation_speed |-> Scale, pulse_intensity |-> (8 * Scale) \div 10,
     position |-> "Bottom", coord_x |-> Pixels(0), coord_y |-> Pixels(0),
     font_style |-> "Normal", alignment |-> "Center",
     animation_style |-> "Scroll",
     margin_top |-> 0, margin_bottom |-> 0, margin_horizontal |-> 2,
     title_color |-> NoRgb, artist_color |-> NoRgb, background_color |-> NoRgb,
     use_color_scheme |-> TRUE]

\* None
NoLayout ==
    [some |-> FALSE, bars_y_start |-> 0, bars_height |-> 0, start_x |-> 0,
     slot_width |-> 0, displayable |-> 0, render_frequencies |-> <<>>]

\* usize::saturating_sub
saturating_sub(a, b) == IF a > b THEN a - b ELSE 0

\* the index into frequencies that element i (0-based) of render_frequencies
\* is read from, taking each bar in source order whatever the mirror flags
freq_idx_unmirrored(mirror, reverse_mirror, displayable, len, i) ==
    Min((i * len) \div Max(displayable, 1), len - 1)

\* the index into frequencies that element i (0-based) of render_frequencies
\* is read from if reverse_mirror were never set
freq_idx_no_reverse(mirror, reverse_mirror, displayable, len, i) ==
    LET half == displayable \div 2
        rest == displayable - half
        raw == IF mirror
               THEN IF i < half
                    THEN (i * len) \div Max(half, 1)
                    ELSE ((rest - 1 - (i - half)) * len) \div Max(rest, 1)
               ELSE (i * len) \div Max(displayable, 1)
    IN  Min(raw, len - 1)

\* the index into frequencies with the same reading order in both halves
freq_idx_same_order(mirror, reverse_mirror, displayable, len, i) ==
    LET half == displayable \div 2
        rest == displayable - half
        raw == IF mirror
               THEN IF i < half
                    THEN (i * len) \div Max(half, 1)
                    ELSE ((i - half) * len) \div Max(rest, 1)
               ELSE (i * len) \div Max(displayable, 1)
    IN  Min(raw, len - 1)

\* the index into frequencies that element i (0-based) of render_frequencies
\* is read from: freq_idx.min(frequencies.len() - 1) of the four match arms
freq_idx(mirror, reverse_mirror, displayable, len, i) ==
    LET half == displayable \div 2
        rest == displayable - half
        raw ==
            CASE mirror /\ reverse_mirror ->
                    IF i < half
                    THEN ((half - 1 - i) * len) \div Max(half, 1)
                    ELSE ((i - half) * len) \div Max(rest, 1)
              [] mirror /\ ~reverse_mirror ->
                    IF i < half
                    THEN (i * len) \div Max(half, 1)
                    ELSE ((rest - 1 - (i - half)) * len) \div Max(rest, 1)
              [] ~mirror /\ reverse_mirror ->
                    ((displayable - 1 - i) * len) \div Max(displayable, 1)
              [] OTHER ->
                    (i * len) \div Max(displayable, 1)
    IN  Min(raw, len - 1)

\* the number of bars if each took one pixel column whatever the slot width
displayable_uncapped(width, slot_width, len) == Min(width, len)

\* max_bars.min(bar_count), bar_count = frequencies.len().min(width)
displayable_of(width, slot_width, len) ==
    Min(width \div Max(slot_width, 1), Min(len, width))

compute_bar_layout(width, height, frequencies, params) ==
    LET tc == params.text_config
        text_height == IF tc.show_title \/ tc.show_artist
                       THEN text_band + tc.margin_top + tc.margin_bottom
                       ELSE 0
        bars_y_start == IF tc.position = "Top" THEN text_height ELSE 0
        bars_height == IF tc.position \in {"Top", "Bottom"}
                       THEN saturating_sub(height, text_height)
                       ELSE height
        slot_width == params.bar_width + params.bar_spacing
        displayable == displayable_of(width, slot_width, Len(frequencies))
    IN  IF frequencies = <<>> \/ bars_height = 0 \/ displayable = 0
        THEN NoLayout
        ELSE [some |-> TRUE,
              bars_y_start |-> bars_y_start,
              bars_height |-> bars_height,
              start_x |-> saturating_sub(width, displayable * slot_width) \div 2,
              slot_width |-> slot_width,
              displayable |-> displayable,
              render_frequencies |->
                  [k \in 1..displayable |->
                      frequencies[freq_idx(params.mirror, params.reverse_mirror,
                                           displayable, Len(frequencies), k - 1) + 1]]]

\* the RenderParams the terminal host builds from Config::default()
DefaultParams ==
    [style |-> 0, bar_width |-> 1, bar_spacing |-> 1,
     mirror |-> FALSE, reverse_mirror |-> FALSE, opacity |-> Scale,
     color_scheme |-> "Spectrum", waveform |-> <<>>,
     spectrogram_history |-> <<>>, text_config |-> TextOff]

\* a FrameData of silence
SilentFrame ==
    [frequencies |-> <<>>, intensity |-> 0,
     track_title |-> [some |-> FALSE, chars |-> <<>>],
     track_artist |-> [some |-> FALSE, chars |-> <<>>], time |-> 0]

LayoutIdle ==
    /\ layout_args = [width |-> 0, height |-> 0, frequencies |-> <<>>,
                      params |-> DefaultParams]
    /\ layout = NoLayout
    /\ layout_calls = 0

RenderIdle ==
    /\ frame_data = SilentFrame
    /\ render_params = DefaultParams
    /\ bar_pixels = 0
    /\ erased = FALSE

-----------------------------------------------------------------------------
(* ColorScheme::get_color (color.rs 36-81).  A hue is in 1/Scale degrees, *)
(* a saturation, a lightness and an RGB component in 1/Mille.              *)

Mille == 1000

abs(v) == IF v < 0 THEN 0 - v ELSE v

\* `x as usize` of an f32 that has been truncated already: saturates at 0
as_usize(v) == IF v < 0 THEN 0 ELSE v

\* a (hue, saturation, lightness) that takes its hue from the position in
\* every scheme
hsl_of_hue_by_position(scheme, position, intensity) ==
    <<position * 360, 500, (intensity * 800) \div Scale>>

\* the (hue, saturation, lightness) each scheme picks
hsl_of(scheme, position, intensity) ==
    CASE scheme = "Spectrum" ->
            <<270 * Scale - position * 270, 900, 400 + (intensity * 300) \div Scale>>
      [] scheme = "Rainbow" ->
            <<position * 360, 850, 500 + (intensity * 200) \div Scale>>
      [] scheme = "Fire" ->
            <<position * 60, 950, 300 + (intensity * 400) \div Scale>>
      [] scheme = "Ocean" ->
            <<180 * Scale + position * 60, 800, 300 + (intensity * 350) \div Scale>>
      [] scheme = "Forest" ->
            <<80 * Scale + position * 60, 750, 250 + (intensity * 350) \div Scale>>
      [] scheme = "Purple" ->
            <<270 * Scale + position * 60, 800, 350 + (intensity * 300) \div Scale>>
      [] OTHER ->
            <<0, 0, (intensity * 800) \div Scale>>

\* Hsl::new(h, s, l).into_color(): the HSL to sRGB conversion
hsl_to_rgb(h, s, l) ==
    LET c == ((Mille - abs(2 * l - Mille)) * s) \div Mille
        hm == h % (120 * Scale)
        x == (c * (60 * Scale - abs(hm - 60 * Scale))) \div (60 * Scale)
        m == l - c \div 2
        sector == (h \div (60 * Scale)) % 6
    IN  CASE sector = 0 -> <<c + m, x + m, m>>
          [] sector = 1 -> <<x + m, c + m, m>>
          [] sector = 2 -> <<m, c + m, x + m>>
          [] sector = 3 -> <<m, x + m, c + m>>
          [] sector = 4 -> <<x + m, m, c + m>>
          [] OTHER      -> <<c + m, m, x + m>>

get_color(scheme, position, intensity) ==
    LET hsl == hsl_of(scheme, position, intensity)
        rgb == hsl_to_rgb(hsl[1], hsl[2], hsl[3])
    IN  <<as_u8((rgb[1] * 255) \div Mille),
          as_u8((rgb[2] * 255) \div Mille),
          as_u8((rgb[3] * 255) \div Mille)>>

-----------------------------------------------------------------------------
(* The style renderers (styles.rs 46-368).  Each is modelled by the        *)
(* sequence of put_pixel calls it makes, in the order it makes them.       *)

\* one canvas.put_pixel(x, y, r, g, b, opacity) call
pixel(x, y, color, opacity) ==
    [x |-> x, y |-> y, r |-> color[1], g |-> color[2], b |-> color[3],
     opacity |-> opacity]

\* the concatenation of a sequence of sequences (halving keeps the
\* evaluation shallow)
RECURSIVE Flatten(_)
Flatten(ss) ==
    CASE Len(ss) = 0 -> <<>>
      [] Len(ss) = 1 -> ss[1]
      [] OTHER -> Flatten(SubSeq(ss, 1, Len(ss) \div 2))
                  \o Flatten(SubSeq(ss, Len(ss) \div 2 + 1, Len(ss)))

\* the put_pixel calls of a sequence, applied in order: the first half is
\* applied, and its canvas evaluated, before the second half is started
RECURSIVE put_pixels(_, _)
put_pixels(c, ws) ==
    CASE Len(ws) = 0 -> c
      [] Len(ws) = 1 -> put_pixel(c, ws[1].x, ws[1].y, ws[1].r, ws[1].g, ws[1].b,
                                  ws[1].opacity)
      [] OTHER -> LET first == put_pixels(c, SubSeq(ws, 1, Len(ws) \div 2))
                  IN  IF first.width = c.width
                      THEN put_pixels(first, SubSeq(ws, Len(ws) \div 2 + 1, Len(ws)))
                      ELSE first

\* i as f32 / n as f32
ratio(i, n) == (i * Scale) \div n

\* for bx in 0..bar_width { if x < canvas.width && y < canvas.height { .. } }
bar_row(c, x_start, y, bar_width, color, opacity) ==
    SelectSeq([bx \in 1..bar_width |-> pixel(x_start + bx - 1, y, color, opacity)],
              LAMBDA w : w.x < c.width /\ w.y < c.height)

\* classic bars whose row loop runs one row too far (0..=bar_height)
classic_pixels_inclusive(c, l, params) ==
    Flatten([i \in 1..l.displayable |->
        LET magnitude == l.render_frequencies[i]
            bar_height == as_usize((magnitude * l.bars_height) \div Scale)
            x_start == l.start_x + (i - 1) * l.slot_width
            position == ratio(i - 1, l.displayable)
        IN  Flatten([y_offset \in 1..(Min(bar_height, l.bars_height - 1) + 1) |->
                bar_row(c, x_start,
                        l.bars_y_start + l.bars_height - 1 - (y_offset - 1),
                        params.bar_width,
                        get_color(params.color_scheme, position,
                                  ratio(y_offset - 1, l.bars_height)),
                        params.opacity)])])

\* Style 0: classic vertical bars from the bottom
classic_pixels(c, l, params) ==
    Flatten([i \in 1..l.displayable |->
        LET magnitude == l.render_frequencies[i]
            bar_height == as_usize((magnitude * l.bars_height) \div Scale)
            x_start == l.start_x + (i - 1) * l.slot_width
            position == ratio(i - 1, l.displayable)
        IN  Flatten([y_offset \in 1..Min(bar_height, l.bars_height) |->
                bar_row(c, x_start,
                        l.bars_y_start + l.bars_height - 1 - (y_offset - 1),
                        params.bar_width,
                        get_color(params.color_scheme, position,
                                  ratio(y_offset - 1, l.bars_height)),
                        params.opacity)])])

\* Style 1: mirrored bars growing from the center row
mirrored_pixels(c, l, params) ==
    LET center_y == l.bars_y_start + l.bars_height \div 2
    IN  Flatten([i \in 1..l.displayable |->
        LET magnitude == l.render_frequencies[i]
            half_height == as_usize((magnitude * l.bars_height) \div (2 * Scale))
            x_start == l.start_x + (i - 1) * l.slot_width
            position == ratio(i - 1, l.displayable)
        IN  Flatten([k \in 1..Min(half_height, l.bars_height \div 2) |->
                LET y_offset == k - 1
                    color == get_color(params.color_scheme, position,
                                       (y_offset * 2 * Scale) \div l.bars_height)
                    y_up == saturating_sub(center_y, y_offset)
                    y_down == center_y + y_offset
                IN  (IF y_up >= l.bars_y_start
                     THEN bar_row(c, x_start, y_up, params.bar_width, color,
                                  params.opacity)
                     ELSE <<>>)
                    \o
                    (IF y_down < l.bars_y_start + l.bars_height
                     THEN bar_row(c, x_start, y_down, params.bar_width, color,
                                  params.opacity)
                     ELSE <<>>)])])

\* Style 2 without the check of the row against the bar area
wave_pixels_unguarded(c, l, params) ==
    LET center_y == l.bars_y_start + l.bars_height \div 2
        wave_width == Max(params.bar_width \div 3, 1)
    IN  Flatten([i \in 1..l.displayable |->
        LET magnitude == l.render_frequencies[i]
            wave_height == IF magnitude < 0 THEN 0 - 1
                           ELSE (magnitude * l.bars_height) \div (2 * Scale)
            x_start == l.start_x + (i - 1) * l.slot_width
            position == ratio(i - 1, l.displayable)
        IN  Flatten([k \in 1..(2 * wave_height + 1) |->
                LET offset == k - 1 - wave_height
                    y == center_y + offset
                    intensity == Scale - (abs(offset) * Scale) \div Max(wave_height, 1)
                    color == get_color(params.color_scheme, position, intensity)
                IN  IF y >= 0 /\ y < c.height
                    THEN SelectSeq(
                            [bx \in 1..wave_width |->
                                pixel(x_start + bx - 1, y, color,
                                      (params.opacity * intensity) \div Scale)],
                            LAMBDA w : w.x < c.width)
                    ELSE <<>>])])

\* Style 2: wave centered on the middle row
wave_pixels(c, l, params) ==
    LET center_y == l.bars_y_start + l.bars_height \div 2
        wave_width == Max(params.bar_width \div 3, 1)
    IN  Flatten([i \in 1..l.displayable |->
        LET magnitude == l.render_frequencies[i]
            wave_height == IF magnitude < 0 THEN 0 - 1
                           ELSE (magnitude * l.bars_height) \div (2 * Scale)
            x_start == l.start_x + (i - 1) * l.slot_width
            position == ratio(i - 1, l.displayable)
        IN  Flatten([k \in 1..(2 * wave_height + 1) |->
                LET offset == k - 1 - wave_height
                    y == center_y + offset
                    intensity == Scale - (abs(offset) * Scale) \div Max(wave_height, 1)
                    color == get_color(params.color_scheme, position, intensity)
                IN  IF y >= 0 /\ y >= l.bars_y_start
                       /\ y < l.bars_y_start + l.bars_height /\ y < c.height
                    THEN SelectSeq(
                            [bx \in 1..wave_width |->
                                pixel(x_start + bx - 1, y, color,
                                      (params.opacity * intensity) \div Scale)],
                            LAMBDA w : w.x < c.width)
                    ELSE <<>>])])

\* Style 3: a dot at the peak with a trail below it
dots_pixels(c, l, params) ==
    LET dot_radius == Max(params.bar_width \div 3, 2)
        r2 == dot_radius * dot_radius
        side == 2 * dot_radius + 1
        trail_width == Max(params.bar_width \div 4, 1)
        trail_end == l.bars_y_start + l.bars_height
    IN  Flatten([i \in 1..l.displayable |->
        LET magnitude == l.render_frequencies[i]
            peak_y == l.bars_y_start + l.bars_height - 1
                      - as_usize((magnitude * (l.bars_height - 1)) \div Scale)
            x_center == l.start_x + (i - 1) * l.slot_width + params.bar_width \div 2
            position == ratio(i - 1, l.displayable)
            color == get_color(params.color_scheme, position, magnitude)
            trail_start == peak_y + dot_radius + 1
            dot == SelectSeq(
                      [k \in 1..(side * side) |->
                          pixel(x_center + ((k - 1) % side) - dot_radius,
                                peak_y + ((k - 1) \div side) - dot_radius,
                                color, params.opacity)],
                      LAMBDA w : /\ (w.x - x_center) * (w.x - x_center)
                                    + (w.y - peak_y) * (w.y - peak_y) <= r2
                                 /\ w.x >= 0 /\ w.x < c.width
                                 /\ w.y >= 0 /\ w.y >= l.bars_y_start
                                 /\ w.y < l.bars_y_start + l.bars_height
                                 /\ w.y < c.height)
            trail == Flatten([k \in 1..saturating_sub(trail_end, trail_start) |->
                          LET y == trail_start + k - 1
                              trail_intensity ==
                                  Scale - ((k - 1) * 2 * Scale) \div l.bars_height
                              tcolor == get_color(params.color_scheme, position,
                                            (trail_intensity * magnitude) \div Scale)
                          IN  IF trail_intensity <= 0 THEN <<>>
                              ELSE SelectSeq(
                                      [bx \in 1..trail_width |->
                                          pixel(x_center - trail_width \div 2 + bx - 1,
                                                y, tcolor,
                                                (params.opacity * trail_intensity)
                                                    \div Scale)],
                                      LAMBDA w : w.x < c.width /\ w.y < c.height)])
        IN  dot \o trail])

\* Style 4: blocks with a gradient fade at the top edge
blocks_pixels(c, l, params) ==
    LET fade_height == Max(params.bar_width \div 2, 2)
    IN  Flatten([i \in 1..l.displayable |->
        LET magnitude == l.render_frequencies[i]
            bar_height_f == magnitude * l.bars_height
            bar_height == as_usize(bar_height_f \div Scale)
            fractional == bar_height_f - bar_height * Scale
            x_start == l.start_x + (i - 1) * l.slot_width
            position == ratio(i - 1, l.displayable)
            solid == Flatten([y_offset \in 1..Min(bar_height, l.bars_height) |->
                        bar_row(c, x_start,
                                l.bars_y_start + l.bars_height - 1 - (y_offset - 1),
                                params.bar_width,
                                get_color(params.color_scheme, position,
                                          ratio(y_offset - 1, l.bars_height)),
                                params.opacity)])
            top_y == l.bars_y_start + l.bars_height - 1 - bar_height
            color == get_color(params.color_scheme, position,
                               ratio(bar_height, l.bars_height))
            fade_rows == IF bar_height < l.bars_height
                         THEN Min(fade_height, saturating_sub(top_y, l.bars_y_start))
                         ELSE 0
            faded == Flatten([k \in 1..fade_rows |->
                        LET fy == k - 1
                            fade == (fractional * (Scale - ratio(fy, fade_height)))
                                        \div Scale
                        IN  bar_row(c, x_start, top_y - fy, params.bar_width, color,
                                    (params.opacity * fade) \div Scale)])
        IN  solid \o faded])

\* Style 5: oscilloscope, the raw waveform as a continuous line
oscilloscope_pixels(c, l, params) ==
    LET num_samples == Len(params.waveform)
        center_y == l.bars_y_start + l.bars_height \div 2
        thickness == Max(params.bar_width \div 4, 1)
        sample_at(x) == params.waveform[Min((x * num_samples) \div c.width,
                                            num_samples - 1) + 1]
        \* (center_y as f32 - sample * half_height) as usize, clamped to the band
        y_at(x) ==
            LET v == center_y * 2 * Scale - sample_at(x) * l.bars_height
            IN  Min(Max(IF v < 0 THEN 0 ELSE v \div (2 * Scale), l.bars_y_start),
                    l.bars_y_start + l.bars_height - 1)
    IN  IF num_samples = 0 THEN <<>>
        ELSE Flatten([k \in 1..c.width |->
            LET x == k - 1
                y == y_at(x)
                prev_y == IF x = 0 THEN y ELSE y_at(x - 1)
                y_min == Min(prev_y, y)
                y_max == Max(prev_y, y)
                intensity == Min(abs(sample_at(x)), Scale)
                color == get_color(params.color_scheme, ratio(x, c.width),
                                   Max(intensity, 30))
            IN  SelectSeq(
                    [j \in 1..((y_max - y_min + 1) * thickness) |->
                        pixel(x, y_min + ((j - 1) \div thickness) + ((j - 1) % thickness),
                              color, params.opacity)],
                    LAMBDA w : /\ w.x < c.width
                               /\ w.y >= l.bars_y_start
                               /\ w.y < l.bars_y_start + l.bars_height
                               /\ w.y < c.height)])

\* Style 6 with the oldest history entry at the bottom
spectrogram_pixels_oldest_first(c, l, params) ==
    LET history == params.spectrogram_history
        num_rows == Min(Len(history), l.bars_height)
    IN  Flatten([k \in 1..num_rows |->
            LET row_idx == k - 1
                slice == history[k]
                y == l.bars_y_start + l.bars_height - 1 - row_idx
                num_freqs == Len(slice)
            IN  IF y >= l.bars_y_start + l.bars_height \/ num_freqs = 0 THEN <<>>
                ELSE [j \in 1..c.width |->
                        LET x == j - 1
                            magnitude == slice[Min((x * num_freqs) \div c.width,
                                                   num_freqs - 1) + 1]
                        IN  pixel(x, y,
                                  get_color(params.color_scheme, ratio(x, c.width),
                                            magnitude),
                                  (params.opacity * Max(magnitude, 5)) \div Scale)]])

\* Style 6: spectrogram, one row per history entry, the newest at the bottom
spectrogram_pixels(c, l, params) ==
    LET history == params.spectrogram_history
        num_rows == Min(Len(history), l.bars_height)
    IN  Flatten([k \in 1..num_rows |->
            LET row_idx == k - 1
                slice == history[Len(history) - row_idx]
                y == l.bars_y_start + l.bars_height - 1 - row_idx
                num_freqs == Len(slice)
            IN  IF y >= l.bars_y_start + l.bars_height \/ num_freqs = 0 THEN <<>>
                ELSE [j \in 1..c.width |->
                        LET x == j - 1
                            magnitude == slice[Min((x * num_freqs) \div c.width,
                                                   num_freqs - 1) + 1]
                        IN  pixel(x, y,
                                  get_color(params.color_scheme, ratio(x, c.width),
                                            magnitude),
                                  (params.opacity * Max(magnitude, 5)) \div Scale)]])

\* radii, centers, sines and cosines of the radial style are in 1/Fine
Fine == 10000

\* std::f32::consts::FRAC_PI_2 in 1/Fine radians
FRAC_PI_2 == 15708

\* std::f32::consts::TAU in 1/Mille radians
TAU == 6283

\* a product of two 1/Fine values, rounded toward zero
mul_f(a, b) ==
    IF (a < 0) = (b < 0) THEN (abs(a) * abs(b)) \div Fine
    ELSE 0 - ((abs(a) * abs(b)) \div Fine)

\* f32::round of a 1/Fine value: half away from zero.  A sum that is exactly
\* a half here is rounded as the exact half, where the f32 sum may carry the
\* rounding error of cos(FRAC_PI_2) or sin(PI) and fall on either side.
round_f(v) ==
    IF v >= 0 THEN (v + Fine \div 2) \div Fine
    ELSE 0 - ((Fine \div 2 - v) \div Fine)

\* sin and cos of x, 0 <= x < pi/2 in 1/Fine radians, by their power series
sin_q(x) ==
    LET x2 == (x * x) \div Fine
        t3 == (x * x2) \div (6 * Fine)
        t5 == (t3 * x2) \div (20 * Fine)
        t7 == (t5 * x2) \div (42 * Fine)
        t9 == (t7 * x2) \div (72 * Fine)
    IN  x - t3 + t5 - t7 + t9

cos_q(x) ==
    LET x2 == (x * x) \div Fine
        c2 == x2 \div 2
        c4 == (c2 * x2) \div (12 * Fine)
        c6 == (c4 * x2) \div (30 * Fine)
        c8 == (c6 * x2) \div (56 * Fine)
    IN  Fine - c2 + c4 - c6 + c8

\* f32::sin of the angle (num / den) * TAU
sin_turn(num, den) ==
    LET n == num % den
        q == (4 * n) \div den
        x == ((4 * n - q * den) * FRAC_PI_2) \div den
    IN  CASE q = 0 -> sin_q(x)
          [] q = 1 -> cos_q(x)
          [] q = 2 -> 0 - sin_q(x)
          [] OTHER -> 0 - cos_q(x)

\* f32::cos of the angle (num / den) * TAU
cos_turn(num, den) == sin_turn(4 * num + den, 4 * den)

\* Style 7: radial, bars radiating outward from a circle
radial_pixels(c, l, params) ==
    LET cx == (c.width * Fine) \div 2
        cy == l.bars_y_start * Fine + (l.bars_height * Fine) \div 2
        half_dim == (Min(c.width, l.bars_height) * Fine) \div 2
        base_radius == (half_dim * 35) \div 100
        max_radius == (half_dim * 95) \div 100
        thickness == Max(params.bar_width \div 3, 2)
        bar_count == Len(l.render_frequencies)
        circle_steps == (base_radius * TAU + Fine * Mille - 1) \div (Fine * Mille)
        in_band(w) == /\ w.x < c.width
                      /\ w.y >= l.bars_y_start
                      /\ w.y < l.bars_y_start + l.bars_height
                      /\ w.y < c.height
        circle == Flatten([k \in 1..circle_steps |->
            LET step == k - 1
                px == as_usize(round_f(cx + mul_f(cos_turn(step, circle_steps),
                                                  base_radius)))
                py == as_usize(round_f(cy + mul_f(sin_turn(step, circle_steps),
                                                  base_radius)))
                position == (ratio(step, circle_steps) + Scale \div 4) % Scale
                color == get_color(params.color_scheme, position, 30)
            IN  SelectSeq([t \in 1..thickness |->
                              pixel(px + t - 1, py, color,
                                    (params.opacity * 50) \div Scale)],
                          in_band)])
        bars == Flatten([k \in 1..bar_count |->
            LET i == k - 1
                magnitude == l.render_frequencies[k]
                cos_a == cos_turn(4 * i - bar_count, 4 * bar_count)
                sin_a == sin_turn(4 * i - bar_count, 4 * bar_count)
                bar_length == (magnitude * (max_radius - base_radius)) \div Scale
                position == ratio(i, bar_count)
                steps == Max((bar_length + Fine - 1) \div Fine, 1)
            IN  IF magnitude < 1 THEN <<>>
                ELSE Flatten([j \in 1..(steps + 1) |->
                    LET r_dist == base_radius + ((j - 1) * bar_length) \div steps
                        px == round_f(cx + mul_f(cos_a, r_dist))
                        py_val == round_f(cy + mul_f(sin_a, r_dist))
                        intensity == ((r_dist - base_radius) * Scale)
                                         \div (max_radius - base_radius)
                        color == get_color(params.color_scheme, position,
                                           (magnitude + intensity) \div 2)
                    IN  SelectSeq(
                            [m \in 1..(2 * (thickness \div 2) + 1) |->
                                LET t == m - 1 - thickness \div 2
                                IN  pixel(as_usize(round_f(px * Fine - sin_a * t)),
                                          as_usize(round_f(py_val * Fine + cos_a * t)),
                                          color, params.opacity)],
                            in_band)])])
    IN  IF bar_count = 0 THEN <<>> ELSE circle \o bars

\* styles.rs 27-43: the put_pixel calls render_bars makes
render_bars_pixels(c, frequencies, params) ==
    LET l == compute_bar_layout(c.width, c.height, frequencies, params)
    IN  IF ~l.some THEN <<>>
        ELSE CASE params.style = 1 -> mirrored_pixels(c, l, params)
               [] params.style = 2 -> wave_pixels(c, l, params)
               [] params.style = 3 -> dots_pixels(c, l, params)
               [] params.style = 4 -> blocks_pixels(c, l, params)
               [] params.style = 5 -> oscilloscope_pixels(c, l, params)
               [] params.style = 6 -> spectrogram_pixels(c, l, params)
               [] params.style = 7 -> radial_pixels(c, l, params)
               [] OTHER -> classic_pixels(c, l, params)

render_bars(c, frequencies, params) ==
    put_pixels(c, render_bars_pixels(c, frequencies, params))

-----------------------------------------------------------------------------
(* render_text, get_char_bitmap and render_char (text.rs 12-290).  A       *)
(* string is the sequence of its characters, a time is in 1/Scale seconds. *)

NoString == [some |-> FALSE, chars |-> <<>>]

SomeString(chars) == [some |-> TRUE, chars |-> chars]

\* "cavibe".to_string()
placeholder == <<"c", "a", "v", "i", "b", "e">>

Lowercase ==
    <<"a", "b", "c", "d", "e", "f", "g", "h", "i", "j", "k", "l", "m",
      "n", "o", "p", "q", "r", "s", "t", "u", "v", "w", "x", "y", "z">>

Uppercase ==
    <<"A", "B", "C", "D", "E", "F", "G", "H", "I", "J", "K", "L", "M",
      "N", "O", "P", "Q", "R", "S", "T", "U", "V", "W", "X", "Y", "Z">>

to_ascii_uppercase(ch) ==
    IF \E k \in 1..Len(Lowercase) : Lowercase[k] = ch
    THEN Uppercase[CHOOSE k \in 1..Len(Lowercase) : Lowercase[k] = ch]
    ELSE ch

\* the match of get_char_bitmap: eight rows, or <<>> for None
glyph_rows(ch) ==
    CASE ch = "A" -> <<24, 36, 66, 126, 66, 66, 66, 0>>
      [] ch = "B" -> <<124, 66, 124, 66, 66, 66, 124, 0>>
      [] ch = "C" -> <<60, 66, 64, 64, 64, 66, 60, 0>>
      [] ch = "D" -> <<120, 68, 66, 66, 66, 68, 120, 0>>
      [] ch = "E" -> <<126, 64, 124, 64, 64, 64, 126, 0>>
      [] ch = "F" -> <<126, 64, 124, 64, 64, 64, 64, 0>>
      [] ch = "G" -> <<60, 66, 64, 78, 66, 66, 60, 0>>
      [] ch = "H" -> <<66, 66, 126, 66, 66, 66, 66, 0>>
      [] ch = "I" -> <<62, 8, 8, 8, 8, 8, 62, 0>>
      [] ch = "J" -> <<31, 4, 4, 4, 4, 68, 56, 0>>
      [] ch = "K" -> <<66, 68, 120, 72, 68, 66, 66, 0>>
      [] ch = "L" -> <<64, 64, 64, 64, 64, 64, 126, 0>>
      [] ch = "M" -> <<66, 102, 90, 66, 66, 66, 66, 0>>
      [] ch = "N" -> <<66, 98, 82, 74, 70, 66, 66, 0>>
      [] ch = "O" -> <<60, 66, 66, 66, 66, 66, 60, 0>>
      [] ch = "P" -> <<124, 66, 66, 124, 64, 64, 64, 0>>
      [] ch = "Q" -> <<60, 66, 66, 66, 74, 68, 58, 0>>
      [] ch = "R" -> <<124, 66, 66, 124, 72, 68, 66, 0>>
      [] ch = "S" -> <<60, 66, 48, 12, 2, 66, 60, 0>>
      [] ch = "T" -> <<127, 8, 8, 8, 8, 8, 8, 0>>
      [] ch = "U" -> <<66, 66, 66, 66, 66, 66, 60, 0>>
      [] ch = "V" -> <<66, 66, 66, 66, 36, 36, 24, 0>>
      [] ch = "W" -> <<66, 66, 66, 90, 90, 102, 66, 0>>
      [] ch = "X" -> <<66, 36, 24, 24, 36, 66, 66, 0>>
      [] ch = "Y" -> <<65, 34, 20, 8, 8, 8, 8, 0>>
      [] ch = "Z" -> <<126, 4, 8, 16, 32, 64, 126, 0>>
      [] ch = "0" -> <<60, 66, 70, 90, 98, 66, 60, 0>>
      [] ch = "1" -> <<8, 24, 40, 8, 8, 8, 62, 0>>
      [] ch = "2" -> <<60, 66, 2, 12, 48, 64, 126, 0>>
      [] ch = "3" -> <<60, 66, 2, 28, 2, 66, 60, 0>>
      [] ch = "4" -> <<4, 12, 20, 36, 126, 4, 4, 0>>
      [] ch = "5" -> <<126, 64, 124, 2, 2, 66, 60, 0>>
      [] ch = "6" -> <<28, 32, 64, 124, 66, 66, 60, 0>>
      [] ch = "7" -> <<126, 2, 4, 8, 16, 16, 16, 0>>
      [] ch = "8" -> <<60, 66, 66, 60, 66, 66, 60, 0>>
      [] ch = "9" -> <<60, 66, 66, 62, 2, 4, 56, 0>>
      [] ch = " " -> <<0, 0, 0, 0, 0, 0, 0, 0>>
      [] ch = "-" -> <<0, 0, 0, 126, 0, 0, 0, 0>>
      [] ch = "." -> <<0, 0, 0, 0, 0, 24, 24, 0>>
      [] ch = "," -> <<0, 0, 0, 0, 0, 24, 8, 16>>
      [] ch = "!" -> <<8, 8, 8, 8, 8, 0, 8, 0>>
      [] ch = "?" -> <<60, 66, 2, 12, 16, 0, 16, 0>>
      [] ch = ":" -> <<0, 24, 24, 0, 24, 24, 0, 0>>
      [] ch = "'" -> <<8, 8, 16, 0, 0, 0, 0, 0>>
      [] ch = "\"" -> <<36, 36, 72, 0, 0, 0, 0, 0>>
      [] ch = "(" -> <<4, 8, 16, 16, 16, 8, 4, 0>>
      [] ch = ")" -> <<32, 16, 8, 8, 8, 16, 32, 0>>
      [] ch = "&" -> <<48, 72, 48, 80, 74, 68, 58, 0>>
      [] OTHER -> <<>>
\* get_char_bitmap(ch)
get_char_bitmap(ch) == glyph_rows(to_ascii_uppercase(ch))

\* the put_pixel calls of render_char if bit 0 of a row were its left column
render_char_pixels_flipped(c, x, y, ch, color, scale, opacity) ==
    LET bitmap == get_char_bitmap(ch)
        bit(row_idx, col) == (bitmap[row_idx + 1] \div 2 ^ col) % 2
    IN  IF bitmap = <<>> THEN <<>>
        ELSE SelectSeq(
                [k \in 1..(64 * scale * scale) |->
                    LET row_idx == (k - 1) \div (8 * scale * scale)
                        col == ((k - 1) \div (scale * scale)) % 8
                        sy == ((k - 1) \div scale) % scale
                        sx == (k - 1) % scale
                    IN  pixel(x + col * scale + sx, y + row_idx * scale + sy,
                              color, opacity)],
                LAMBDA w : /\ bit((w.y - y) \div scale, (w.x - x) \div scale) = 1
                           /\ w.x < c.width
                           /\ w.y < c.height)

\* the put_pixel calls of render_char
render_char_pixels(c, x, y, ch, color, scale, opacity) ==
    LET bitmap == get_char_bitmap(ch)
        bit(row_idx, col) == (bitmap[row_idx + 1] \div 2 ^ (7 - col)) % 2
    IN  IF bitmap = <<>> THEN <<>>
        ELSE SelectSeq(
                [k \in 1..(64 * scale * scale) |->
                    LET row_idx == (k - 1) \div (8 * scale * scale)
                        col == ((k - 1) \div (scale * scale)) % 8
                        sy == ((k - 1) \div scale) % scale
                        sx == (k - 1) % scale
                    IN  pixel(x + col * scale + sx, y + row_idx * scale + sy,
                              color, opacity)],
                LAMBDA w : /\ bit((w.y - y) \div scale, (w.x - x) \div scale) = 1
                           /\ w.x < c.width
                           /\ w.y < c.height)

\* display_text with the placeholder standing in for an empty string too
display_text_or_placeholder(tc, title, artist) ==
    CASE tc.show_title /\ title.some /\ title.chars # <<>> ->
            [text |-> title.chars, title_len |-> Len(title.chars)]
      [] tc.show_artist /\ artist.some /\ artist.chars # <<>> ->
            [text |-> artist.chars, title_len |-> 0]
      [] OTHER ->
            [text |-> placeholder, title_len |-> 6]

\* the (text, title_len) render_text builds
display_text(tc, title, artist) ==
    CASE tc.show_title /\ tc.show_artist /\ title.some /\ artist.some ->
            [text |-> title.chars \o <<" ", "-", " ">> \o artist.chars,
             title_len |-> Len(title.chars)]
      [] tc.show_title /\ tc.show_artist /\ title.some /\ ~artist.some ->
            [text |-> title.chars, title_len |-> Len(title.chars)]
      [] tc.show_title /\ tc.show_artist /\ ~title.some /\ artist.some ->
            [text |-> artist.chars, title_len |-> 0]
      [] tc.show_title /\ ~tc.show_artist /\ title.some ->
            [text |-> title.chars, title_len |-> Len(title.chars)]
      [] ~tc.show_title /\ tc.show_artist /\ artist.some ->
            [text |-> artist.chars, title_len |-> 0]
      [] OTHER ->
            [text |-> placeholder, title_len |-> 6]

\* (base_scale * size_factor).round().max(1.0) as usize
text_scale(font_style, height) ==
    LET base_scale == CASE font_style = "Bold" -> 4
                        [] font_style = "Ascii" -> 2
                        [] font_style = "Figlet" -> 5
                        [] OTHER -> 3
    IN  Max((base_scale * height * 2 + 800) \div 1600, 1)

\* CoordValue::resolve
resolve(cv, total) ==
    IF cv.kind = "Pixels" THEN Max(cv.value, 0)
    ELSE as_usize((total * cv.value) \div 100)

\* f32::sin of an angle in 1/Fine radians, in 1/Fine
sin_rad(a) ==
    LET n == a % (4 * FRAC_PI_2)
        q == n \div FRAC_PI_2
        x == n - q * FRAC_PI_2
    IN  CASE q = 0 -> sin_q(x)
          [] q = 1 -> cos_q(x)
          [] q = 2 -> 0 - sin_q(x)
          [] OTHER -> 0 - cos_q(x)

\* v * k for a 1/Fine value v, rounded toward zero to 1/den
scaled(v, k, den) ==
    IF v >= 0 THEN (v * k) \div den ELSE 0 - (((0 - v) * k) \div den)

\* ColorScheme::get_text_gradient (color.rs 91-101), element i
text_gradient(scheme, text_len, intensity, time, i) ==
    LET pos == ratio(i, Max(text_len, 1))
        angle == (i * 4 * FRAC_PI_2) \div Max(text_len, 1) + time
        wave == scaled(sin_rad(angle), 15, Fine)
    IN  get_color(scheme, pos, Min(Max(intensity + wave, 0), Scale))

\* the positions and sizes render_text computes before it draws
text_metrics(c, frame, params) ==
    LET tc == params.text_config
        built == display_text(tc, frame.track_title, frame.track_artist)
        scale == text_scale(tc.font_style, c.height)
        char_width == 8 * scale
        char_height == 8 * scale
        char_spacing == IF tc.font_style = "Bold" THEN 2 * scale ELSE scale
        text_area_height == char_height + 20
        margin_h == tc.margin_horizontal
        base_text_y ==
            CASE tc.position = "Top" -> tc.margin_top
              [] tc.position = "Bottom" ->
                    saturating_sub(c.height, text_area_height + tc.margin_bottom)
              [] tc.position = "Center" -> saturating_sub(c.height, char_height) \div 2
              [] OTHER -> resolve(tc.coord_y, c.height)
        text_width == Len(built.text) * (char_width + char_spacing)
        available_width == saturating_sub(c.width, margin_h * 2)
        base_start_x ==
            IF tc.position = "Coordinates" THEN resolve(tc.coord_x, c.width)
            ELSE CASE tc.alignment = "Left" -> margin_h
                   [] tc.alignment = "Center" ->
                        margin_h + saturating_sub(available_width, text_width) \div 2
                   [] OTHER -> margin_h + saturating_sub(available_width, text_width)
        scroll_range == text_width - available_width + margin_h * 2
        travelled == (frame.time * tc.animation_speed * 30) % (2 * scroll_range * Fine)
        scroll_offset ==
            IF tc.animation_style = "Scroll" /\ text_width > available_width
               /\ tc.animation_speed > 0
            THEN (IF travelled > scroll_range * Fine
                  THEN 2 * scroll_range * Fine - travelled
                  ELSE travelled) \div Fine
            ELSE 0
    IN  [text |-> built.text, title_len |-> built.title_len, scale |-> scale,
         char_width |-> char_width, char_spacing |-> char_spacing,
         text_area_height |-> text_area_height, base_text_y |-> base_text_y,
         text_width |-> text_width, base_start_x |-> base_start_x,
         scroll_offset |-> scroll_offset,
         y |-> base_text_y + saturating_sub(text_area_height, char_height) \div 2]

\* the background rectangle, written into canvas.data directly
fill_background(c, m, params) ==
    LET bg == params.text_config.background_color
        bg_padding == 10
        bg_x_start == saturating_sub(m.base_start_x, bg_padding)
        bg_x_end == Min(m.base_start_x + m.text_width + bg_padding, c.width)
        bg_y_start == saturating_sub(m.base_text_y, bg_padding)
        bg_y_end == Min(m.base_text_y + m.text_area_height + bg_padding, c.height)
        covered(k) ==
            LET p == (k - 1) \div 4
            IN  /\ p % c.width >= bg_x_start /\ p % c.width < bg_x_end
                /\ p \div c.width >= bg_y_start /\ p \div c.width < bg_y_end
                /\ p * 4 + 3 < Len(c.data)
    IN  IF ~bg.some \/ c.width = 0 THEN c
        ELSE [c EXCEPT !.data =
                [k \in 1..Len(c.data) |->
                    IF covered(k)
                    THEN CASE (k - 1) % 4 = 0 -> as_u8((bg.r * params.opacity) \div Scale)
                           [] (k - 1) % 4 = 1 -> as_u8((bg.g * params.opacity) \div Scale)
                           [] (k - 1) % 4 = 2 -> as_u8((bg.b * params.opacity) \div Scale)
                           [] OTHER -> as_u8((params.opacity * 255 * 8) \div (Scale * 10))
                    ELSE c.data[k]]]

\* the put_pixel calls of the character loop
text_pixels(c, m, frame, params) ==
    LET tc == params.text_config
        title_color == IF tc.title_color.some
                       THEN <<tc.title_color.r, tc.title_color.g, tc.title_color.b>>
                       ELSE <<255, 255, 255>>
        artist_color == IF tc.artist_color.some
                        THEN <<tc.artist_color.r, tc.artist_color.g, tc.artist_color.b>>
                        ELSE <<200, 200, 200>>
        color_of(i) ==
            IF tc.use_color_scheme
            THEN text_gradient(params.color_scheme, Len(m.text),
                               (frame.intensity * tc.pulse_intensity) \div Scale,
                               frame.time * tc.animation_speed, i)
            ELSE IF m.title_len > 0 /\ i >= m.title_len + 3
                 THEN artist_color ELSE title_color
    IN  Flatten([k \in 1..Len(m.text) |->
        LET i == k - 1
            ch == m.text[k]
            base_x == m.base_start_x - m.scroll_offset
                      + i * (m.char_width + m.char_spacing)
            wave_offset ==
                scaled(sin_rad(frame.time * tc.animation_speed * 3 + i * 3000), 8, Fine)
            char_y == IF tc.animation_style = "Wave"
                      THEN Max(m.y + wave_offset, 0) ELSE m.y
            pulse == 70 + (30 * ((frame.intensity * tc.pulse_intensity) \div Scale))
                              \div Scale
            fade == 50 + (50 * (50 + scaled(sin_rad(frame.time * tc.animation_speed),
                                            50, Fine))) \div Scale
            char_opacity ==
                CASE tc.animation_style = "Pulse" -> (params.opacity * pulse) \div Scale
                  [] tc.animation_style = "Fade" -> (params.opacity * fade) \div Scale
                  [] OTHER -> params.opacity
            color == color_of(i)
            outline == <<color[1] \div 3, color[2] \div 3, color[3] \div 3>>
            glyph(x, y, col, opacity) ==
                render_char_pixels(c, x, y, ch, col, m.scale, opacity)
        IN  IF base_x < 0 \/ base_x >= c.width THEN <<>>
            ELSE CASE tc.font_style = "Bold" ->
                        glyph(base_x, char_y, color, char_opacity)
                        \o glyph(base_x + 1, char_y, color, char_opacity)
                        \o glyph(base_x, char_y + 1, color, char_opacity)
                   [] tc.font_style = "Figlet" ->
                        glyph(base_x, char_y, outline, (char_opacity * 50) \div Scale)
                        \o glyph(base_x, char_y + 2, outline,
                                 (char_opacity * 50) \div Scale)
                        \o glyph(base_x + 2, char_y, outline,
                                 (char_opacity * 50) \div Scale)
                        \o glyph(base_x + 2, char_y + 2, outline,
                                 (char_opacity * 50) \div Scale)
                        \o glyph(base_x + 1, char_y + 1, color, char_opacity)
                   [] OTHER ->
                        glyph(base_x, char_y, color, char_opacity)])

render_text(c, frame, params) ==
    LET m == text_metrics(c, frame, params)
    IN  IF ~params.text_config.show_title /\ ~params.text_config.show_artist
        THEN c
        ELSE put_pixels(fill_background(c, m, params),
                        text_pixels(c, m, frame, params))

\* mod.rs 120-124
render_frame(c, frame, params) ==
    render_text(render_bars(clear(c), frame.frequencies, params), frame, params)

\* the operations of render_frame that panic when their operands are out of
\* range: the slice of clear, the index of compute_bar_layout into
\* frequencies, the division by the slot width, and the unsigned subtraction
\* of the scroll range
render_frame_faults(c, frame, params) ==
    LET tc == params.text_config
        N == Len(frame.frequencies)
        slot_width == params.bar_width + params.bar_spacing
        l == compute_bar_layout(c.width, c.height, frame.frequencies, params)
        m == text_metrics(c, frame, params)
        available_width == saturating_sub(c.width, tc.margin_horizontal * 2)
    IN  (IF c.width * c.height * 4 > Len(c.data) THEN {"clear"} ELSE {})
        \cup (IF N > 0 /\ Max(slot_width, 1) = 0 THEN {"max_bars"} ELSE {})
        \cup (IF l.some /\ \E i \in 0..(l.displayable - 1) :
                    freq_idx(params.mirror, params.reverse_mirror,
                             l.displayable, N, i) \notin 0..(N - 1)
              THEN {"render_frequencies"} ELSE {})
        \cup (IF (tc.show_title \/ tc.show_artist)
                 /\ tc.animation_style = "Scroll"
                 /\ m.text_width > available_width
                 /\ m.text_width - available_width + tc.margin_horizontal * 2 <= 0
              THEN {"scroll_range"} ELSE {})

-----------------------------------------------------------------------------
(* VisualizerState (visualizer/mod.rs 30-71) and TextAnimator::update      *)
(* (visualizer/text.rs 19-35).  Phases and times are in 1/Scale.           *)

\* the name() of each element of VISUALIZER_STYLES, in order
VISUALIZER_STYLES ==
    <<<<"C", "l", "a", "s", "s", "i", "c", " ", "B", "a", "r", "s">>,
      <<"M", "i", "r", "r", "o", "r", "e", "d">>,
      <<"W", "a", "v", "e">>,
      <<"D", "o", "t", "s">>,
      <<"B", "l", "o", "c", "k", "s">>,
      <<"O", "s", "c", "i", "l", "l", "o", "s", "c", "o", "p", "e">>,
      <<"S", "p", "e", "c", "t", "r", "o", "g", "r", "a", "m">>,
      <<"R", "a", "d", "i", "a", "l">>>>

\* str::eq_ignore_ascii_case
eq_ignore_ascii_case(a, b) ==
    /\ Len(a) = Len(b)
    /\ \A k \in 1..Len(a) : to_ascii_uppercase(a[k]) = to_ascii_uppercase(b[k])

\* the initial_style of VisualizerState::new: the position of the configured
\* name, or 0
initial_style(style) ==
    LET found == {k \in 1..Len(VISUALIZER_STYLES) :
                     eq_ignore_ascii_case(VISUALIZER_STYLES[k], style.chars)}
    IN  IF style.some /\ found # {}
        THEN (CHOOSE k \in found : \A j \in found : k <= j) - 1
        ELSE 0

\* TextAnimator::new
TextAnimator_new(text_config) ==
    [config |-> text_config, scroll_offset |-> 0, pulse_phase |-> 0,
     fade_phase |-> 0, wave_phase |-> 0]

\* TextAnimator::update
TextAnimator_update(a, dt) ==
    LET speed == a.config.animation_speed
    IN  [a EXCEPT !.scroll_offset = @ + (dt * 20 * speed) \div Scale,
                  !.pulse_phase = @ + (dt * 3 * speed) \div Scale,
                  !.fade_phase = @ + (dt * 15 * speed) \div (10 * Scale),
                  !.wave_phase = @ + (dt * 2 * speed) \div Scale]

\* next_style without the wrap
next_style_unwrapped(style) == style + 1

\* the current_style next_style stores
next_style(style) == (style + 1) % Len(VISUALIZER_STYLES)

\* the current_style prev_style stores
prev_style(style) ==
    IF style = 0 THEN Len(VISUALIZER_STYLES) - 1 ELSE style - 1

\* VisualizerState::new(VisualizerConfig::default(), TextConfig::default())
VisualizerIdle ==
    /\ visualizer_config = [style |-> NoString]
    /\ text_animator = TextAnimator_new(TextOff)
    /\ current_style = 0
    /\ state_time = 0
    /\ style_trace = <<>>

-----------------------------------------------------------------------------
(* FrequencyAnalyzer::new (fft.rs 18-40) and ::process (fft.rs 42-80).     *)

\* old * self.smoothing + new * (1.0 - self.smoothing)
smooth(new, old, s) ==
    (old * s) \div SmoothingDen + (new * (SmoothingDen - s)) \div SmoothingDen

\* frequencies.iter().zip(self.previous_magnitudes.iter()).map(..).collect()
smoothed_of(frequencies, previous, s) ==
    [i \in 1..Min(Len(frequencies), Len(previous)) |->
        smooth(frequencies[i], previous[i], s)]

\* what process stores in self.previous_magnitudes
stored_previous_stale(smoothed, previous) == previous

stored_previous(smoothed, previous) == smoothed

\* the AudioData process builds from the smoothed magnitudes
make_audio_data(smoothed) ==
    LET third == Len(smoothed) \div 3
    IN  [frequencies |-> smoothed,
         intensity |-> f32_mean(SumSeq(smoothed), Len(smoothed)),
         bass |-> f32_mean(SumSeq(SubSeq(smoothed, 1, third)), third)]

Smoothings == {0, 7, SmoothingDen}

Sensitivities == {1, SensitivityDen, 10 * SensitivityDen}

FrequencyAnalyzer_new(n, s, k) ==
    /\ num_bars = n
    /\ smoothing = s
    /\ sensitivity = k
    /\ buffer = ZeroSpectrum
    /\ previous_magnitudes = [i \in 1..n |-> 0]

InitAnalyzer ==
    /\ \E n \in 0..MaxBars, s \in Smoothings, k \in Sensitivities :
          FrequencyAnalyzer_new(n, s, k)
    /\ audio_data = [frequencies |-> <<>>, intensity |-> 0, bass |-> 0]
    /\ calls = 0
    /\ last_len = 0
    /\ prev_returned = [i \in 1..num_bars |-> 0]
    /\ CanvasIdle
    /\ LayoutIdle
    /\ RenderIdle
    /\ VisualizerIdle
    /\ OthersIdle

process(samples) ==
    /\ calls < MaxCalls
    /\ buffer' = samples.spectrum
    /\ LET frequencies == calculate_bar_magnitudes(buffer', sensitivity, num_bars)
           smoothed == smoothed_of(frequencies, previous_magnitudes, smoothing)
       IN  /\ previous_magnitudes' = stored_previous(smoothed, previous_magnitudes)
           /\ audio_data' = make_audio_data(smoothed)
    /\ prev_returned' = IF calls = 0 THEN [i \in 1..num_bars |-> 0]
                        ELSE audio_data.frequencies
    /\ calls' = calls + 1
    /\ last_len' = samples.len
    /\ UNCHANGED <<num_bars, smoothing, sensitivity>>
    /\ UNCHANGED <<canvas_vars, layout_vars, render_vars, visualizer_vars,
                 other_vars>>

NextAnalyzer == \E samples \in SampleBlocks : process(samples)

SpecAnalyzer == InitAnalyzer /\ [][NextAnalyzer]_vars

-----------------------------------------------------------------------------
(* The Canvas on its own: any caller's sequence of operations.             *)

AnalyzerIdle ==
    /\ FrequencyAnalyzer_new(0, 0, SensitivityDen)
    /\ audio_data = [frequencies |-> <<>>, intensity |-> 0, bass |-> 0]
    /\ calls = 0
    /\ last_len = 0
    /\ prev_returned = <<>>

InitCanvas ==
    /\ \E w \in 0..MaxDim, h \in 0..MaxDim : canvas = Canvas_new(w, h)
    /\ dest = <<>>
    /\ last_op = NoOp
    /\ pre_canvas = canvas
    /\ ops = 0
    /\ AnalyzerIdle
    /\ LayoutIdle
    /\ RenderIdle
    /\ VisualizerIdle
    /\ OthersIdle

CanvasStep(op, x, y) ==
    /\ ops < MaxOps
    /\ ops' = ops + 1
    /\ last_op' = [op |-> op, x |-> x, y |-> y]
    /\ pre_canvas' = canvas
    /\ UNCHANGED <<analyzer_vars, layout_vars, render_vars, visualizer_vars,
                 other_vars>>

CanvasResize(w, h) ==
    /\ CanvasStep("resize", w, h)
    /\ canvas' = resize(canvas, w, h)
    /\ UNCHANGED dest

CanvasClear ==
    /\ CanvasStep("clear", 0, 0)
    /\ canvas' = clear(canvas)
    /\ UNCHANGED dest

CanvasPutPixel(x, y, p) ==
    /\ CanvasStep("put_pixel", x, y)
    /\ canvas' = put_pixel(canvas, x, y, p.r, p.g, p.b, p.opacity)
    /\ UNCHANGED dest

\* the caller hands in a slice of at least width * height * 4 bytes
CanvasWriteArgb(extra) ==
    /\ CanvasStep("write_argb8888", 0, 0)
    /\ dest' = write_argb8888(canvas,
                   [k \in 1..(canvas.width * canvas.height * 4 + extra) |-> DestFill])
    /\ UNCHANGED canvas

NextCanvas ==
    \/ \E w \in 0..MaxDim, h \in 0..MaxDim : CanvasResize(w, h)
    \/ CanvasClear
    \/ \E x \in 0..MaxDim, y \in 0..MaxDim, p \in Paints : CanvasPutPixel(x, y, p)
    \/ \E extra \in {0, 4} : CanvasWriteArgb(extra)

SpecCanvas == InitCanvas /\ [][NextCanvas]_vars

-----------------------------------------------------------------------------
(* compute_bar_layout on its own: one call on any arguments.               *)

\* canvas heights around the reserved text band
LayoutHeights == {0, 2, text_band, text_band + 1, text_band + 3}

\* text settings the layout depends on
LayoutTextConfigs ==
    {TextOff,
     [TextOff EXCEPT !.show_title = TRUE],
     [TextOff EXCEPT !.show_artist = TRUE, !.position = "Top",
                     !.margin_top = 1, !.margin_bottom = 1],
     [TextOff EXCEPT !.show_title = TRUE, !.position = "Center"],
     [TextOff EXCEPT !.show_title = TRUE, !.show_artist = TRUE,
                     !.position = "Coordinates"]}

\* n magnitudes, all different, so that an element names its source index
ramp(n) == [i \in 1..n |-> (i * Scale) \div (n + 1)]

InitLayout ==
    /\ \E width \in 0..MaxWidth, height \in LayoutHeights, n \in 0..MaxBars,
          bar_width \in 0..MaxBarWidth, bar_spacing \in 0..1,
          mirror \in BOOLEAN, reverse_mirror \in BOOLEAN,
          tc \in LayoutTextConfigs :
          layout_args = [width |-> width, height |-> height,
                         frequencies |-> ramp(n),
                         params |-> [DefaultParams EXCEPT
                                        !.bar_width = bar_width,
                                        !.bar_spacing = bar_spacing,
                                        !.mirror = mirror,
                                        !.reverse_mirror = reverse_mirror,
                                        !.text_config = tc]]
    /\ layout = NoLayout
    /\ layout_calls = 0
    /\ AnalyzerIdle
    /\ CanvasIdle
    /\ RenderIdle
    /\ VisualizerIdle
    /\ OthersIdle

ComputeLayout ==
    /\ layout_calls = 0
    /\ layout' = compute_bar_layout(layout_args.width, layout_args.height,
                                    layout_args.frequencies, layout_args.params)
    /\ layout_calls' = 1
    /\ UNCHANGED <<layout_args, analyzer_vars, canvas_vars, render_vars,
                 visualizer_vars,
                 other_vars>>

NextLayout == ComputeLayout

SpecLayout == InitLayout /\ [][NextLayout]_vars

-----------------------------------------------------------------------------
(* render_frame: frames drawn onto one canvas, each in any style.          *)

\* STYLE_NAMES.len()
style_count == 8

\* the smallest canvas height on which two rows of a glyph are visible
TextRows == 12

\* canvas sizes: every width up to MaxCanvas at height 0 and MaxCanvas, one
\* tall enough to show text, one taller than the reserved text band
RenderDims ==
    ((0..MaxCanvas) \X {0, MaxCanvas})
    \cup {<<MaxCanvas, TextRows>>, <<MaxCanvas - 1, text_band + 2>>}

\* FrameData.frequencies: none, one bar, more bars than a narrow canvas holds
RenderFrequencies ==
    {<<>>, <<Scale>>, <<30, Scale, 0, 65>>}

\* (bar_width, bar_spacing)
BarGeometries == {<<0, 0>>, <<1, 0>>, <<1, 1>>, <<MaxBarWidth + 1, 1>>}

\* text settings: off as in the terminal host, a title drawn over the bars
\* from the top left corner, or title and artist in a band above the bars
RenderTextConfigs ==
    {TextOff,
     [TextOff EXCEPT !.show_title = TRUE, !.position = "Coordinates",
                     !.animation_style = "None", !.use_color_scheme = FALSE],
     [TextOff EXCEPT !.show_title = TRUE, !.show_artist = TRUE,
                     !.position = "Top", !.alignment = "Left",
                     !.margin_horizontal = 0, !.animation_style = "Wave"]}

\* AudioData.waveform of the frame
RenderWaveform == <<0, Scale, 0 - Scale \div 2, 20>>

InitRender ==
    /\ \E dims \in RenderDims, frequencies \in RenderFrequencies,
          geometry \in BarGeometries, mirror \in BOOLEAN,
          tc \in RenderTextConfigs :
          /\ canvas = Canvas_new(dims[1], dims[2])
          /\ frame_data = [SilentFrame EXCEPT !.frequencies = frequencies,
                                         !.intensity = Scale \div 2,
                                         !.time = 150]
          /\ render_params = [DefaultParams EXCEPT
                          !.bar_width = geometry[1],
                          !.bar_spacing = geometry[2],
                          !.mirror = mirror,
                          !.waveform = RenderWaveform,
                          !.spectrogram_history = <<<<Scale, 0>>, frequencies>>,
                          !.text_config = tc]
    /\ bar_pixels = 0
    /\ erased = FALSE
    /\ dest = <<>>
    /\ last_op = NoOp
    /\ pre_canvas = Canvas_new(0, 0)
    /\ ops = 0
    /\ layout_args = [width |-> 0, height |-> 0, frequencies |-> <<>>,
                      params |-> DefaultParams]
    /\ layout = NoLayout
    /\ layout_calls = 0
    /\ AnalyzerIdle
    /\ VisualizerIdle
    /\ OthersIdle

\* renderer::render_frame(&mut canvas, &frame, &params) with params.style = style
RenderFrame(style) ==
    LET p == [render_params EXCEPT !.style = style]
    IN  /\ render_params' = p
        /\ canvas' = render_frame(canvas, frame_data, p)
        /\ bar_pixels' = Len(render_bars_pixels(clear(canvas), frame_data.frequencies, p))
        /\ layout_args' = [width |-> canvas.width, height |-> canvas.height,
                           frequencies |-> frame_data.frequencies, params |-> p]
        /\ layout' = compute_bar_layout(canvas.width, canvas.height,
                                        frame_data.frequencies, p)
        /\ layout_calls' = 1
        /\ erased' = /\ last_op.op = "render_frame"
                     /\ style # render_params.style
                     /\ \E k \in 1..Len(canvas.data) :
                           canvas.data[k] # 0 /\ canvas'.data[k] = 0
        /\ last_op' = [op |-> "render_frame", x |-> 0, y |-> 0]
        /\ UNCHANGED <<frame_data, dest, pre_canvas, ops, analyzer_vars,
                     visualizer_vars,
                 other_vars>>

NextRender == \E style \in 0..(style_count - 1) : RenderFrame(style)

SpecRender == InitRender /\ [][NextRender]_vars

-----------------------------------------------------------------------------
(* The classic style on an 80x40 canvas: eight bars of width 8, spacing 2, *)
(* each of magnitude 0.1 or 0.9 and the last of 0.9, no text; one frame is  *)
(* drawn.                                                                  *)

\* the two magnitudes of the bars
ExampleMagnitudes == {Scale \div 10, (9 * Scale) \div 10}

InitClassic ==
    /\ canvas = Canvas_new(80, 40)
    /\ \E f \in [1..7 -> ExampleMagnitudes] :
          frame_data = [SilentFrame EXCEPT
                           !.frequencies = [i \in 1..8 |->
                               IF i < 8 THEN f[i] ELSE (9 * Scale) \div 10]]
    /\ render_params = [DefaultParams EXCEPT !.bar_width = 8, !.bar_spacing = 2]
    /\ bar_pixels = 0
    /\ erased = FALSE
    /\ dest = <<>>
    /\ last_op = NoOp
    /\ pre_canvas = Canvas_new(0, 0)
    /\ ops = 0
    /\ LayoutIdle
    /\ AnalyzerIdle
    /\ VisualizerIdle
    /\ OthersIdle

\* render_frame in style 0
RenderClassic ==
    /\ last_op = NoOp
    /\ RenderFrame(0)

NextClassic == RenderClassic

SpecClassic == InitClassic /\ [][NextClassic]_vars

-----------------------------------------------------------------------------
(* render_frame on degenerate inputs: no frequencies, a canvas without     *)
(* width or height, an empty title; one frame is drawn on a canvas that    *)
(* holds the pixels of an earlier frame.                                   *)

\* (width, height) of the canvas
DegenerateDims == {0, MaxCanvas} \X {0, TextRows}

\* a canvas made at the size drawn on, or painted at full size and resized
DegenerateCanvases ==
    {Canvas_new(dims[1], dims[2]) : dims \in DegenerateDims}
    \cup {resize(put_pixel(put_pixel(Canvas_new(MaxCanvas, TextRows),
                                     0, 0, 255, 255, 255, Scale),
                           MaxCanvas - 1, TextRows - 1, 255, 255, 255, Scale),
                 dims[1], dims[2]) : dims \in DegenerateDims}

\* FrameData.track_title: none, empty, one character
DegenerateTitles == {NoString, SomeString(<<>>), SomeString(<<"A">>)}

\* text settings: off, a title scrolled in the band below the bars, a title
\* at the top left corner without and with a background rectangle
DegenerateTextConfigs ==
    {TextOff,
     [TextOff EXCEPT !.show_title = TRUE],
     [TextOff EXCEPT !.show_title = TRUE, !.position = "Coordinates",
                     !.animation_style = "None", !.use_color_scheme = FALSE],
     [TextOff EXCEPT !.show_title = TRUE, !.show_artist = TRUE,
                     !.position = "Coordinates",
                     !.animation_style = "None", !.use_color_scheme = FALSE,
                     !.background_color = [some |-> TRUE, r |-> 10, g |-> 20, b |-> 30]]}

InitDegenerate ==
    /\ canvas \in DegenerateCanvases
    /\ \E frequencies \in {<<>>, <<Scale>>}, title \in DegenerateTitles :
          frame_data = [SilentFrame EXCEPT !.frequencies = frequencies,
                                         !.track_title = title,
                                         !.intensity = Scale \div 2,
                                         !.time = 150]
    /\ \E tc \in DegenerateTextConfigs :
          render_params = [DefaultParams EXCEPT !.text_config = tc]
    /\ bar_pixels = 0
    /\ erased = FALSE
    /\ dest = <<>>
    /\ last_op = NoOp
    /\ pre_canvas = canvas
    /\ ops = 0
    /\ LayoutIdle
    /\ AnalyzerIdle
    /\ VisualizerIdle
    /\ OthersIdle

\* renderer::render_frame(&mut canvas, &frame, &params), one frame
RenderOnce(style) ==
    LET p == [render_params EXCEPT !.style = style]
    IN  /\ last_op = NoOp
        /\ render_params' = p
        /\ pre_canvas' = canvas
        /\ canvas' = render_frame(canvas, frame_data, p)
        /\ bar_pixels' = Len(render_bars_pixels(clear(canvas), frame_data.frequencies, p))
        /\ last_op' = [op |-> "render_frame", x |-> 0, y |-> 0]
        /\ UNCHANGED <<frame_data, erased, dest, ops, layout_vars, analyzer_vars,
                     visualizer_vars,
                 other_vars>>

NextDegenerate == \E style \in 0..(style_count - 1) : RenderOnce(style)

SpecDegenerate == InitDegenerate /\ [][NextDegenerate]_vars

-----------------------------------------------------------------------------
(* render_text: one frame with a title, an artist, both or neither, under   *)
(* each setting of show_title and show_artist.                             *)

\* the canvas width that holds the five characters of "A - B" at scale 1
TextWidth == 45

\* the canvas height that holds a whole glyph below the 10 rows of padding
TextHeight == 20

InitText ==
    /\ canvas = Canvas_new(TextWidth, TextHeight)
    /\ \E title \in {NoString, SomeString(<<"A">>)},
          artist \in {NoString, SomeString(<<"B">>)} :
          frame_data = [SilentFrame EXCEPT !.frequencies = <<Scale>>,
                                         !.track_title = title,
                                         !.track_artist = artist,
                                         !.intensity = Scale \div 2,
                                         !.time = 150]
    /\ \E show_title \in BOOLEAN, show_artist \in BOOLEAN, scheme \in BOOLEAN :
          render_params =
              [DefaultParams EXCEPT !.text_config =
                  [TextOff EXCEPT !.show_title = show_title,
                                  !.show_artist = show_artist,
                                  !.position = "Coordinates",
                                  !.animation_style = "None",
                                  !.use_color_scheme = scheme]]
    /\ bar_pixels = 0
    /\ erased = FALSE
    /\ dest = <<>>
    /\ last_op = NoOp
    /\ pre_canvas = canvas
    /\ ops = 0
    /\ LayoutIdle
    /\ AnalyzerIdle
    /\ VisualizerIdle
    /\ OthersIdle

NextText == \E style \in 0..(style_count - 1) : RenderOnce(style)

SpecText == InitText /\ [][NextText]_vars

-----------------------------------------------------------------------------
(* render_char: one glyph drawn on a zeroed canvas.                        *)

\* the side of the canvas: holds the 24x24 glyph of scale 3 at a small offset
GlyphCanvas == 30

\* the largest scale drawn
MaxScale == 3

\* the x and y a glyph is drawn at: on the canvas, or so far right or down
\* that a glyph of scale 2 or 3 is cut by the edge
GlyphOffsets == {0, 3, GlyphCanvas - 16}

\* glyphs with a bitmap, one reached through to_ascii_uppercase, a blank one,
\* and a character without a bitmap
GlyphChars == {"A", "B", "b", " ", "~"}

InitGlyph ==
    /\ \E width \in {GlyphCanvas \div 3, GlyphCanvas} :
          canvas = Canvas_new(width, GlyphCanvas)
    /\ pre_canvas = canvas
    /\ dest = <<>>
    /\ last_op = NoOp
    /\ ops = 0
    /\ AnalyzerIdle
    /\ LayoutIdle
    /\ RenderIdle
    /\ VisualizerIdle
    /\ OthersIdle

\* render_char(canvas, x, y, ch, 255, 255, 255, scale, opacity)
RenderChar(x, y, ch, scale, opacity) ==
    /\ last_op = NoOp
    /\ last_op' = [op |-> "render_char", x |-> x, y |-> y, ch |-> ch, scale |-> scale]
    /\ pre_canvas' = canvas
    /\ canvas' = put_pixels(canvas,
                            render_char_pixels(canvas, x, y, ch, <<255, 255, 255>>,
                                               scale, opacity))
    /\ UNCHANGED <<dest, ops, analyzer_vars, layout_vars, render_vars, visualizer_vars,
                 other_vars>>

NextGlyph ==
    \E x \in GlyphOffsets, y \in GlyphOffsets, ch \in GlyphChars,
       scale \in 1..MaxScale, opacity \in {Scale \div 2, Scale} :
        RenderChar(x, y, ch, scale, opacity)

SpecGlyph == InitGlyph /\ [][NextGlyph]_vars

-----------------------------------------------------------------------------
(* render_bars on a zeroed canvas: the bars of one frame without the text. *)

\* renderer::styles::render_bars(&mut canvas, &frequencies, &params)
RenderBars(style) ==
    LET p == [render_params EXCEPT !.style = style]
    IN  /\ last_op = NoOp
        /\ render_params' = p
        /\ pre_canvas' = canvas
        /\ canvas' = render_bars(canvas, frame_data.frequencies, p)
        /\ bar_pixels' = Len(render_bars_pixels(canvas, frame_data.frequencies, p))
        /\ layout_args' = [width |-> canvas.width, height |-> canvas.height,
                           frequencies |-> frame_data.frequencies, params |-> p]
        /\ layout' = compute_bar_layout(canvas.width, canvas.height,
                                        frame_data.frequencies, p)
        /\ layout_calls' = 1
        /\ last_op' = [op |-> "render_bars", x |-> 0, y |-> 0]
        /\ UNCHANGED <<frame_data, erased, dest, ops, analyzer_vars, visualizer_vars,
                 other_vars>>

-----------------------------------------------------------------------------
(* The spectrogram style: histories shorter and longer than the bar band.  *)

\* the longest spectrogram_history
MaxHistory == 4

\* a history of n snapshots of m magnitudes, no two snapshots alike
history_of(n, m) ==
    [i \in 1..n |-> [j \in 1..m |-> (i * 20 + j * 7) % (Scale + 1)]]

\* (width, height): bands of 2 and 3 rows, alone or next to the text band
SpectrogramDims == {1, 3} \X {2, 3, text_band + 2, text_band + 3}

\* text off, or a band reserved above or below the bars
SpectrogramTextConfigs ==
    {TextOff,
     [TextOff EXCEPT !.show_title = TRUE, !.position = "Top"],
     [TextOff EXCEPT !.show_title = TRUE, !.position = "Bottom"]}

InitSpectrogram ==
    /\ \E dims \in SpectrogramDims : canvas = Canvas_new(dims[1], dims[2])
    /\ frame_data = [SilentFrame EXCEPT !.frequencies = <<Scale, Scale \div 2>>]
    /\ \E n \in 0..MaxHistory, m \in 1..2, tc \in SpectrogramTextConfigs :
          render_params = [DefaultParams EXCEPT
                              !.bar_spacing = 0,
                              !.spectrogram_history = history_of(n, m),
                              !.text_config = tc]
    /\ bar_pixels = 0
    /\ erased = FALSE
    /\ dest = <<>>
    /\ last_op = NoOp
    /\ pre_canvas = canvas
    /\ ops = 0
    /\ LayoutIdle
    /\ AnalyzerIdle
    /\ VisualizerIdle
    /\ OthersIdle

NextSpectrogram == RenderBars(6)

SpecSpectrogram == InitSpectrogram /\ [][NextSpectrogram]_vars

-----------------------------------------------------------------------------
(* The bin ranges of calculate_bar_magnitudes for any bar count and any    *)
(* sample rate in the tables.                                              *)

\* the bar counts the tables cover
BinBarCounts == 0..(2 * Len(FreqTable) + 1)

\* FrequencyAnalyzer::new(num_bars, sample_rate, ..)
InitBins ==
    /\ bin_bars \in BinBarCounts
    /\ bin_rate \in SampleRates
    /\ bin_ranges = <<>>
    /\ AnalyzerIdle
    /\ CanvasIdle
    /\ LayoutIdle
    /\ RenderIdle
    /\ VisualizerIdle
    /\ ColorIdle
    /\ HistoryIdle
    /\ IpcIdle
    /\ WaylandIdle
    /\ CaptureIdle

\* the (bin_start, bin_end) of each iteration of `for bar in 0..half_bars`
BinRanges ==
    /\ bin_ranges' = [k \in 1..(bin_bars \div 2) |->
                         [start |-> bin_start_at(bin_rate, k - 1, bin_bars \div 2),
                          end |-> bin_end_at(bin_rate, k - 1, bin_bars \div 2)]]
    /\ UNCHANGED <<bin_bars, bin_rate>>
    /\ UNCHANGED <<analyzer_vars, canvas_vars, layout_vars, render_vars,
                   visualizer_vars, color_vars, history_vars, ipc_vars, wayland_vars, capture_vars>>

NextBins == BinRanges

SpecBins == InitBins /\ [][NextBins]_vars

-----------------------------------------------------------------------------
(* ColorScheme::get_color called on any position and intensity in [0, 1].  *)

\* positions and intensities in 1/Scale, the ends of [0, 1] among them
ColorPositions == {0, Scale \div 2, Scale}

ColorIntensities == {0, 1, 10, 33, 50, 80, 99, Scale}

InitColor ==
    /\ ColorIdle
    /\ BinsIdle
    /\ AnalyzerIdle
    /\ CanvasIdle
    /\ LayoutIdle
    /\ RenderIdle
    /\ VisualizerIdle
    /\ HistoryIdle
    /\ IpcIdle
    /\ WaylandIdle
    /\ CaptureIdle

\* scheme.get_color(position, intensity)
GetColor(scheme, position, intensity) ==
    /\ color_prev' = [in |-> color_in, out |-> color_out]
    /\ color_in' = [scheme |-> scheme, position |-> position, intensity |-> intensity]
    /\ color_out' = get_color(scheme, position, intensity)
    /\ UNCHANGED <<analyzer_vars, canvas_vars, layout_vars, render_vars,
                   visualizer_vars, bins_vars, history_vars, ipc_vars, wayland_vars, capture_vars>>

NextColor ==
    \E scheme \in {"Monochrome", "Fire"}, position \in ColorPositions,
       intensity \in ColorIntensities :
        GetColor(scheme, position, intensity)

SpecColor == InitColor /\ [][NextColor]_vars

-----------------------------------------------------------------------------
(* The spectrogram history of the host's frame loop: each frame pushes the *)
(* frequencies of the frame and trims the history to the canvas height,    *)
(* which may change from frame to frame.                                   *)

\* the frames of a run
MaxFrames == 7

\* the most rows of the terminal
MaxRows == 4

\* the largest height of a surface
MaxSurfaceHeight == 5

\* spectrogram_history.push(snapshot) on a history that keeps its oldest
\* entries
push_and_keep_oldest(history, snapshot, height) ==
    LET grown == Append(history, snapshot)
    IN  IF Len(grown) > height THEN SubSeq(grown, 1, height) ELSE grown

\* spectrogram_history.push(snapshot);
\* if len > height { drain(..len - height) }
push_and_trim(history, snapshot, height) ==
    LET grown == Append(history, snapshot)
        excess == Len(grown) - height
    IN  IF Len(grown) > height THEN SubSeq(grown, excess + 1, Len(grown)) ELSE grown

InitHistory ==
    /\ HistoryIdle
    /\ BinsIdle
    /\ ColorIdle
    /\ AnalyzerIdle
    /\ CanvasIdle
    /\ LayoutIdle
    /\ RenderIdle
    /\ VisualizerIdle
    /\ IpcIdle
    /\ WaylandIdle
    /\ CaptureIdle

\* one frame of wayland.rs draw_surface or wallpaper.rs run_direct_mode on a
\* surface of the given height; the snapshot is named by its frame number
HostFrame(height) ==
    /\ Len(pushed) < MaxFrames
    /\ pushed' = Append(pushed, Len(pushed) + 1)
    /\ spectrogram_history' = push_and_trim(spectrogram_history, Len(pushed) + 1, height)
    /\ history_height' = height
    /\ UNCHANGED <<analyzer_vars, canvas_vars, layout_vars, render_vars,
                   visualizer_vars, bins_vars, color_vars, ipc_vars, wayland_vars, capture_vars>>

\* one frame of terminal.rs run_app: canvas_h = (rows - 1) * 2, and a frame
\* with canvas_h = 0 is skipped before the history is touched
TerminalFrame(rows) ==
    /\ (rows - 1) * 2 > 0
    /\ HostFrame((rows - 1) * 2)

NextHistory ==
    \/ \E height \in 0..MaxSurfaceHeight : HostFrame(height)
    \/ \E rows \in 1..MaxRows : TerminalFrame(rows)

SpecHistory == InitHistory /\ [][NextHistory]_vars

-----------------------------------------------------------------------------
(* render_bars in each of the eight styles on canvases with and without a *)
(* text band above or below the bars.                                     *)

\* (width, height): without room for a text band, and with a bar area of
\* even and of odd height beside it
BandDims == {1, MaxWidth} \X {3, text_band + 2, text_band + 5}

\* magnitudes in [0, 1], the ends included
BandFrequencies ==
    {<<0>>, <<Scale>>, <<Scale, 1, 50>>, <<99, Scale, 0, 33, Scale, 67, 50>>}

\* (bar_width, bar_spacing), up to bars wider than the canvas
BandGeometries == {<<0, 1>>, <<1, 1>>, <<MaxBarWidth, 0>>, <<MaxWidth + 3, 0>>}

\* no text, a band above the bars, a band below them, a band with margins
BandTextConfigs ==
    {TextOff,
     [TextOff EXCEPT !.show_title = TRUE, !.position = "Top"],
     [TextOff EXCEPT !.show_title = TRUE, !.position = "Bottom"],
     [TextOff EXCEPT !.show_artist = TRUE, !.position = "Bottom",
                     !.margin_top = 1, !.margin_bottom = 2]}

\* samples beyond [-1, 1] as well
BandWaveform == <<0, 2 * Scale, 0 - Scale, 0 - 3 * Scale, 20>>

InitBand ==
    /\ \E dims \in BandDims, frequencies \in BandFrequencies,
          geometry \in BandGeometries, tc \in BandTextConfigs :
          /\ canvas = Canvas_new(dims[1], dims[2])
          /\ frame_data = [SilentFrame EXCEPT !.frequencies = frequencies]
          /\ render_params = [DefaultParams EXCEPT
                          !.bar_width = geometry[1],
                          !.bar_spacing = geometry[2],
                          !.waveform = BandWaveform,
                          !.spectrogram_history =
                              [k \in 1..(dims[2] + 1) |-> frequencies],
                          !.text_config = tc]
    /\ bar_pixels = 0
    /\ erased = FALSE
    /\ dest = <<>>
    /\ last_op = NoOp
    /\ pre_canvas = canvas
    /\ ops = 0
    /\ LayoutIdle
    /\ AnalyzerIdle
    /\ VisualizerIdle
    /\ OthersIdle

NextBand == \E style \in 0..7 : RenderBars(style)

SpecBand == InitBand /\ [][NextBand]_vars

-----------------------------------------------------------------------------
(* The IPC server (ipc.rs) and the command loop of run_direct_mode         *)
(* (wallpaper.rs 198-259).  A line is the sequence of its whitespace-       *)
(* separated parts; a reply is <<"ok" or "err", detail>>.                  *)

\* mpsc::channel::<IpcCommand>(32)
ipc_capacity == 32

\* val.parse::<f32>() on the literals of the model, in hundredths
F32Literals == ("0.5" :> 50) @@ ("2" :> 200) @@ ("-1" :> (0 - 100))

\* s.parse::<i32>() on the literals of the model
I32Literals == ("0" :> 0) @@ ("10" :> 10) @@ ("-5" :> (0 - 5))

\* the relative sizes whose number parses: (delta, is_percent)
RelativeSizes == ("+50" :> <<50, FALSE>>) @@ ("-10%" :> <<0 - 10, TRUE>>)

\* the parts that start with '+' or '-'
SignedParts == {"+50", "-10%", "+abc", "-"}

\* WallpaperSize::parse on the literals of the model: (width, height) as the
\* strings Resize carries
AbsoluteSizes == ("800x600" :> <<"800", "600">>) @@ ("50%x400" :> <<"50%", "400">>)

\* TextPosition::from_str on the literals of the model
TextPositions ==
    ("top" :> "top") @@ ("Bottom" :> "bottom") @@ ("center" :> "center")
    @@ ("10,20%" :> "10,20%")

FontStyles == {"normal", "bold", "ascii", "figlet"}

TextAnimations == {"scroll", "pulse", "fade", "wave", "none"}

\* the names WallpaperLayer::from_name knows, in the order of next()
LayerNames == <<"background", "bottom", "top", "overlay">>

\* the names WallpaperAnchor::from_str knows
AnchorNames == {"top-left", "center", "fullscreen"}

\* ColorScheme::all().len()
color_count == 7

\* v.clamp(0.0, 1.0)
clamp_unit(v) == Max(0, Min(v, Scale))

\* parse_command(line, reply): Ok(IpcCommand) or Err
parse_command(parts) ==
    LET n == Len(parts)
        Ok(kind, value) == [ok |-> TRUE, kind |-> kind, value |-> value]
        Err(msg) == [ok |-> FALSE, kind |-> msg, value |-> parts]
        two(a, b) == parts = <<a, b>>
        ints(k) == parts[k] \in DOMAIN I32Literals
    IN  CASE two("style", "next") -> Ok("StyleNext", 0)
          [] two("style", "prev") -> Ok("StylePrev", 0)
          [] two("color", "next") -> Ok("ColorNext", 0)
          [] two("color", "prev") -> Ok("ColorPrev", 0)
          [] parts = <<"toggle">> -> Ok("Toggle", 0)
          [] n = 2 /\ parts[1] = "opacity" ->
                IF parts[2] \in DOMAIN F32Literals
                THEN Ok("SetOpacity", clamp_unit(F32Literals[parts[2]]))
                ELSE Err("Invalid opacity value")
          [] parts = <<"reload">> -> Ok("Reload", 0)
          [] parts = <<"status">> -> Ok("Status", 0)
          [] two("list", "styles") -> Ok("ListStyles", 0)
          [] two("list", "colors") -> Ok("ListColors", 0)
          [] two("list", "monitors") -> Ok("ListMonitors", 0)
          [] parts = <<"ping">> -> Ok("Ping", 0)
          [] n = 3 /\ parts[1] = "text" /\ parts[2] = "position" ->
                IF parts[3] \in DOMAIN TextPositions
                THEN Ok("TextPosition", TextPositions[parts[3]])
                ELSE Err("Invalid text position")
          [] n = 3 /\ parts[1] = "text" /\ parts[2] = "font" ->
                IF parts[3] \in FontStyles THEN Ok("TextFont", parts[3])
                ELSE Err("Unknown font")
          [] n = 3 /\ parts[1] = "text" /\ parts[2] = "animation" ->
                IF parts[3] \in TextAnimations THEN Ok("TextAnimation", parts[3])
                ELSE Err("Unknown animation")
          [] two("text", "toggle") -> Ok("TextToggle", 0)
          [] two("list", "sources") -> Ok("ListSources", 0)
          [] n = 3 /\ parts[1] = "set" /\ parts[2] = "source" ->
                Ok("SetSource", parts[3])
          [] two("layer", "next") -> Ok("LayerNext", 0)
          [] two("layer", "prev") -> Ok("LayerPrev", 0)
          [] n = 2 /\ parts[1] = "layer" /\ parts[2] \notin {"next", "prev"} ->
                IF \E k \in 1..Len(LayerNames) : LayerNames[k] = parts[2]
                THEN Ok("LayerSet", parts[2])
                ELSE Err("Unknown layer")
          [] two("list", "layers") -> Ok("ListLayers", 0)
          [] n = 2 /\ parts[1] = "anchor" ->
                IF parts[2] \in AnchorNames THEN Ok("AnchorSet", parts[2])
                ELSE Err("Unknown anchor")
          [] n = 5 /\ parts[1] = "margin" ->
                IF ints(2) /\ ints(3) /\ ints(4) /\ ints(5)
                THEN Ok("MarginSet", <<I32Literals[parts[2]], I32Literals[parts[3]],
                                       I32Literals[parts[4]], I32Literals[parts[5]]>>)
                ELSE Err("Invalid margin")
          [] n = 2 /\ parts[1] = "resize" ->
                IF parts[2] \in SignedParts
                THEN IF parts[2] \in DOMAIN RelativeSizes
                     THEN Ok("ResizeRelative", RelativeSizes[parts[2]])
                     ELSE Err("Invalid relative size")
                ELSE IF parts[2] \in DOMAIN AbsoluteSizes
                     THEN Ok("Resize", AbsoluteSizes[parts[2]])
                     ELSE Err("Invalid size format")
          [] two("drag", "toggle") -> Ok("DragToggle", 0)
          [] two("drag", "on") -> Ok("DragOn", 0)
          [] two("drag", "off") -> Ok("DragOff", 0)
          [] OTHER -> Err("Unknown command")

\* the position of a layer name in LayerNames
layer_index(name) == CHOOSE k \in 1..Len(LayerNames) : LayerNames[k] = name

\* process_ipc_command(cmd, ..): the state it leaves, the values it sends on
\* cmd's reply channel and whether it panics; env is what the file system
\* answers to Config::load_from_default_path
process_ipc_command(cmd, st, env) ==
    LET saved(t) == [t EXCEPT !.pending.save_config = TRUE]
        out(t, status, detail) ==
            [st |-> t, replies |-> <<<<status, detail>>>>, panicked |-> FALSE]
        k == cmd.kind
    IN  CASE k = "StyleNext" ->
                out(saved([st EXCEPT !.style = next_style(st.style)]), "ok",
                    VISUALIZER_STYLES[next_style(st.style) + 1])
          [] k = "StylePrev" ->
                out(saved([st EXCEPT !.style = prev_style(st.style)]), "ok",
                    VISUALIZER_STYLES[prev_style(st.style) + 1])
          [] k = "ColorNext" ->
                out(saved([st EXCEPT !.color = (st.color + 1) % color_count]), "ok",
                    (st.color + 1) % color_count)
          [] k = "ColorPrev" ->
                out(saved([st EXCEPT !.color = (st.color + color_count - 1) % color_count]),
                    "ok", (st.color + color_count - 1) % color_count)
          [] k = "Toggle" ->
                out([st EXCEPT !.visible = ~st.visible], "ok",
                    IF ~st.visible THEN "visible" ELSE "hidden")
          [] k = "SetOpacity" ->
                out(saved([st EXCEPT !.opacity = cmd.value]), "ok", cmd.value)
          [] k = "Reload" ->
                CASE env.reload = "some" ->
                        out([st EXCEPT !.color = LoopStart.color,
                                       !.opacity = LoopStart.opacity,
                                       !.show_title = LoopStart.show_title,
                                       !.show_artist = LoopStart.show_artist,
                                       !.position = LoopStart.position,
                                       !.font_style = LoopStart.font_style,
                                       !.animation_style = LoopStart.animation_style,
                                       !.layer = LoopStart.layer,
                                       !.anchor = LoopStart.anchor,
                                       !.margins = LoopStart.margins,
                                       !.draggable = LoopStart.draggable],
                            "ok", "reloaded")
                  [] env.reload = "none" -> out(st, "err", "config file not found")
                  [] OTHER -> out(st, "err", "load error")
          [] k = "Status" ->
                out(st, "ok", <<st.style, st.color, st.visible, st.opacity, st.layer,
                                st.anchor, st.margins, st.draggable>>)
          [] k = "ListStyles" -> out(st, "ok", "styles")
          [] k = "ListColors" -> out(st, "ok", "colors")
          [] k = "ListMonitors" -> out(st, "ok", "(no monitors)")
          [] k = "Ping" -> out(st, "ok", "pong")
          [] k = "TextPosition" ->
                out(saved([st EXCEPT !.position = cmd.value]), "ok", cmd.value)
          [] k = "TextFont" ->
                out(saved([st EXCEPT !.font_style = cmd.value]), "ok", cmd.value)
          [] k = "TextAnimation" ->
                out(saved([st EXCEPT !.animation_style = cmd.value]), "ok", cmd.value)
          [] k = "TextToggle" ->
                IF ~st.show_title /\ ~st.show_artist
                THEN out(saved([st EXCEPT !.show_title = TRUE, !.show_artist = TRUE]),
                         "ok", "visible")
                ELSE out(saved([st EXCEPT !.show_title = FALSE, !.show_artist = FALSE]),
                         "ok", "hidden")
          [] k = "LayerNext" ->
                LET layer == LayerNames[(layer_index(st.layer) % Len(LayerNames)) + 1]
                IN  out(saved([st EXCEPT !.layer = layer,
                                         !.pending.layer_change = TRUE]), "ok", layer)
          [] k = "LayerPrev" ->
                LET layer == LayerNames[((layer_index(st.layer) + Len(LayerNames) - 2)
                                            % Len(LayerNames)) + 1]
                IN  out(saved([st EXCEPT !.layer = layer,
                                         !.pending.layer_change = TRUE]), "ok", layer)
          [] k = "LayerSet" ->
                IF \E j \in 1..Len(LayerNames) : LayerNames[j] = cmd.value
                THEN out(saved([st EXCEPT !.layer = cmd.value,
                                          !.pending.layer_change = TRUE]),
                         "ok", cmd.value)
                ELSE out(st, "err", "unknown layer")
          [] k = "ListLayers" -> out(st, "ok", <<"layers", st.layer>>)
          [] k = "AnchorSet" ->
                out(saved([st EXCEPT !.anchor = cmd.value,
                                     !.pending.surface_update = TRUE]), "ok", cmd.value)
          [] k = "MarginSet" ->
                out(saved([st EXCEPT !.margins = cmd.value,
                                     !.pending.surface_update = TRUE]), "ok", cmd.value)
          [] k = "Resize" ->
                \* unreachable!("Resize should be intercepted in wayland.rs"): the
                \* unwinding drops cmd and its reply sender
                [st |-> st, replies |-> <<>>, panicked |-> TRUE]
          [] k = "DragToggle" ->
                out(saved([st EXCEPT !.draggable = ~st.draggable,
                                     !.pending.drag_changed = TRUE]), "ok",
                    <<"drag", ~st.draggable,
                      ~st.draggable /\ st.layer = "background">>)
          [] k = "DragOn" ->
                out(saved([st EXCEPT !.draggable = TRUE,
                                     !.pending.drag_changed = TRUE]), "ok",
                    <<"drag", TRUE, st.layer = "background">>)
          [] k = "DragOff" ->
                out(saved([st EXCEPT !.draggable = FALSE,
                                     !.pending.drag_changed = TRUE]), "ok",
                    <<"drag", FALSE, FALSE>>)
          [] OTHER ->
                \* ResizeRelative, ListSources, SetSource
                out(st, "err", "not supported in this mode")

\* one turn of `while let Ok(cmd) = ipc_rx.try_recv()` in run_direct_mode:
\* the audio commands are answered by the loop, the others by
\* process_ipc_command
run_direct_mode_command(cmd, st, env) ==
    CASE cmd.kind = "ListSources" ->
            [st |-> st,
             replies |-> <<IF env.sources THEN <<"ok", "sources">>
                           ELSE <<"err", "list_sources">>>>,
             panicked |-> FALSE]
      [] cmd.kind = "SetSource" ->
            IF env.pipeline
            THEN [st |-> [st EXCEPT !.source = cmd.value],
                  replies |-> <<<<"ok", cmd.value>>>>, panicked |-> FALSE]
            ELSE [st |-> st, replies |-> <<<<"err", "pipeline">>>>,
                  panicked |-> FALSE]
      [] OTHER -> process_ipc_command(cmd, st, env)

\* the lines clients send, as their parts: every arm of parse_command with
\* an accepted and, where it has one, a rejected argument; the empty line;
\* unknown commands
IpcLines ==
    {<<>>, <<"style", "next">>, <<"style", "prev">>, <<"color", "next">>,
     <<"color", "prev">>, <<"toggle">>, <<"opacity", "0.5">>, <<"opacity", "2">>,
     <<"opacity", "-1">>, <<"opacity", "abc">>, <<"reload">>, <<"status">>,
     <<"list", "styles">>, <<"list", "colors">>, <<"list", "monitors">>,
     <<"ping">>, <<"text", "position", "top">>, <<"text", "position", "10,20%">>,
     <<"text", "position", "middle">>, <<"text", "font", "bold">>,
     <<"text", "font", "comic">>, <<"text", "animation", "wave">>,
     <<"text", "animation", "spin">>, <<"text", "toggle">>, <<"list", "sources">>,
     <<"set", "source", "default">>, <<"set", "source", "monitor1">>,
     <<"layer", "next">>, <<"layer", "prev">>, <<"layer", "top">>,
     <<"layer", "nowhere">>, <<"list", "layers">>, <<"anchor", "center">>,
     <<"anchor", "sideways">>, <<"margin", "0", "10", "-5", "0">>,
     <<"margin", "0", "x", "0", "0">>, <<"resize", "800x600">>,
     <<"resize", "50%x400">>, <<"resize", "0x10">>, <<"resize", "+50">>,
     <<"resize", "-10%">>, <<"resize", "+abc">>, <<"drag", "toggle">>,
     <<"drag", "on">>, <<"drag", "off">>, <<"frobnicate">>, <<"style">>,
     <<"ping", "now">>}

\* what the environment answers the loop: Config::load_from_default_path,
\* audio::list_sources, audio::create_audio_pipeline
LoopEnvs ==
    [reload : {"some", "none", "error"}, sources : BOOLEAN, pipeline : BOOLEAN]

InitIpc ==
    /\ IpcIdle
    /\ HistoryIdle
    /\ BinsIdle
    /\ ColorIdle
    /\ AnalyzerIdle
    /\ CanvasIdle
    /\ LayoutIdle
    /\ RenderIdle
    /\ VisualizerIdle
    /\ WaylandIdle
    /\ CaptureIdle

ipc_others == <<analyzer_vars, canvas_vars, layout_vars, render_vars,
                visualizer_vars, bins_vars, color_vars, history_vars, wayland_vars, capture_vars>>

\* handle_client up to its first await on the command channel: read the line,
\* return on an empty one, answer a parse error, else go on to send
HandleClient(c, line) ==
    /\ ipc_clients[c].pc = "idle"
    /\ LET parsed == parse_command(line)
       IN  ipc_clients' = [ipc_clients EXCEPT ![c] =
               CASE line = <<>> -> [pc |-> "done", line |-> line, written |-> <<>>]
                 [] ~parsed.ok ->
                       [pc |-> "done", line |-> line,
                        written |-> <<<<"err", parsed.kind>>>>]
                 [] OTHER -> [pc |-> "sending", line |-> line, written |-> <<>>]]
    /\ UNCHANGED <<ipc_queue, ipc_replies, ipc_forwarded, render_loop, ipc_others>>

\* cmd_tx.send(command).await: waits for room in the channel; fails, and
\* handle_client returns without a response, once the receiver is gone
SendCommand(c) ==
    /\ ipc_clients[c].pc = "sending"
    /\ IF render_loop.status # "running"
       THEN /\ ipc_clients' = [ipc_clients EXCEPT ![c].pc = "done"]
            /\ UNCHANGED <<ipc_queue, ipc_forwarded>>
       ELSE /\ Len(ipc_queue) < ipc_capacity
            /\ LET parsed == parse_command(ipc_clients[c].line)
               IN  ipc_queue' = Append(ipc_queue,
                                       [kind |-> parsed.kind, value |-> parsed.value,
                                        reply |-> c])
            /\ ipc_forwarded' = [ipc_forwarded EXCEPT ![c] = @ + 1]
            /\ ipc_clients' = [ipc_clients EXCEPT ![c].pc = "awaiting"]
    /\ UNCHANGED <<ipc_replies, render_loop, ipc_others>>

\* the render loop takes one command off the channel and handles it; a panic
\* ends the loop and drops the receiver with the commands still queued
LoopCommand(env) ==
    /\ render_loop.status = "running"
    /\ ipc_queue # <<>>
    /\ LET cmd == Head(ipc_queue)
           done == run_direct_mode_command(cmd, render_loop, env)
       IN  /\ ipc_replies' = [ipc_replies EXCEPT ![cmd.reply] = @ \o done.replies]
           /\ render_loop' = [done.st EXCEPT
                                 !.handled = @ + 1,
                                 !.status = IF done.panicked THEN "panicked"
                                            ELSE "running"]
           /\ ipc_queue' = IF done.panicked THEN <<>> ELSE Tail(ipc_queue)
    /\ UNCHANGED <<ipc_clients, ipc_forwarded, ipc_others>>

\* reply_rx.await, then the response is written: the reply, or
\* "err: internal error" when the sender was dropped unsent; after a panic of
\* the main task the process may end before the response is written
AwaitReply(c, exits) ==
    /\ ipc_clients[c].pc = "awaiting"
    /\ \/ /\ ipc_replies[c] # <<>>
          /\ ~exits
          /\ ipc_clients' = [ipc_clients EXCEPT
                                ![c].pc = "done",
                                ![c].written = Append(@, ipc_replies[c][1])]
       \/ /\ ipc_replies[c] = <<>>
          /\ render_loop.status = "panicked"
          /\ ipc_clients' = [ipc_clients EXCEPT
                                ![c].pc = "done",
                                ![c].written =
                                    IF exits THEN @
                                    ELSE Append(@, <<"err", "internal error">>)]
    /\ UNCHANGED <<ipc_queue, ipc_replies, ipc_forwarded, render_loop, ipc_others>>

NextIpc ==
    \/ \E c \in 1..MaxClients, line \in IpcLines : HandleClient(c, line)
    \/ \E c \in 1..MaxClients : SendCommand(c)
    \/ \E env \in LoopEnvs : LoopCommand(env)
    \/ \E c \in 1..MaxClients, exits \in BOOLEAN : AwaitReply(c, exits)

SpecIpc == InitIpc /\ [][NextIpc]_vars

-----------------------------------------------------------------------------
(* The frame callbacks of the Wayland loop: LayerShellHandler::configure,   *)
(* CompositorHandler::frame and the active/idle transitions of run.  A      *)
(* frame callback is outstanding from the commit that follows its request   *)
(* until the compositor delivers it.                                        *)

\* the frame callbacks per surface the model follows
MaxOutstanding == 3

\* wl_surface.frame(qh, ..) followed by a commit
request_frame(surface) == [surface EXCEPT !.outstanding = @ + 1]

\* a resume that requests no frame callback
kick_start_nothing(surfaces) == surfaces

\* run, audio just started: a frame callback on every configured surface
kick_start(surfaces) ==
    [o \in DOMAIN surfaces |->
        IF surfaces[o].configured THEN request_frame(surfaces[o]) ELSE surfaces[o]]

InitWayland ==
    /\ WaylandIdle
    /\ IpcIdle
    /\ HistoryIdle
    /\ BinsIdle
    /\ ColorIdle
    /\ AnalyzerIdle
    /\ CanvasIdle
    /\ LayoutIdle
    /\ RenderIdle
    /\ VisualizerIdle
    /\ CaptureIdle

wayland_others == <<analyzer_vars, canvas_vars, layout_vars, render_vars,
                    visualizer_vars, bins_vars, color_vars, history_vars, ipc_vars, capture_vars>>

\* LayerShellHandler::configure, the first or a later one: the surface is
\* configured, a frame callback requested and the surface drawn
Configure(o) ==
    /\ wl_surfaces[o].outstanding < MaxOutstanding
    /\ wl_surfaces' = [wl_surfaces EXCEPT
                          ![o] = request_frame([@ EXCEPT !.configured = TRUE])]
    /\ wl_kicked' = wl_kicked \ {o}
    /\ UNCHANGED <<wl_active, wl_audio, wl_redrawn, wayland_others>>

\* the capture thread publishes AudioData on the other side of the threshold
AudioChange ==
    /\ wl_audio' = ~wl_audio
    /\ UNCHANGED <<wl_active, wl_surfaces, wl_kicked, wl_redrawn, wayland_others>>

\* one turn of the main loop that changes the active flag
MainLoop ==
    /\ \/ /\ wl_audio /\ ~wl_active
          /\ \A o \in 1..MaxSurfaces :
                wl_surfaces[o].configured =>
                    wl_surfaces[o].outstanding < MaxOutstanding
          /\ wl_active' = TRUE
          /\ wl_surfaces' = kick_start(wl_surfaces)
          /\ wl_kicked' = {o \in 1..MaxSurfaces : wl_surfaces[o].configured}
          /\ wl_redrawn' = {}
       \/ /\ ~wl_audio /\ wl_active
          /\ wl_active' = FALSE
          /\ UNCHANGED <<wl_surfaces, wl_kicked, wl_redrawn>>
    /\ UNCHANGED <<wl_audio, wayland_others>>

\* the compositor delivers a frame callback of the surface and
\* CompositorHandler::frame runs: idle, it returns; active, it requests the
\* next callback and draws
FrameDone(o) ==
    /\ wl_surfaces[o].outstanding > 0
    /\ IF ~wl_active
       THEN /\ wl_surfaces' = [wl_surfaces EXCEPT ![o].outstanding = @ - 1]
            /\ UNCHANGED <<wl_kicked, wl_redrawn>>
       ELSE /\ wl_surfaces' = [wl_surfaces EXCEPT
                                  ![o] = request_frame([@ EXCEPT
                                                           !.outstanding = @ - 1])]
            /\ wl_redrawn' = IF o \in wl_kicked THEN wl_redrawn \cup {o}
                             ELSE wl_redrawn
            /\ wl_kicked' = wl_kicked \ {o}
    /\ UNCHANGED <<wl_active, wl_audio, wayland_others>>

NextWayland ==
    \/ \E o \in 1..MaxSurfaces : Configure(o)
    \/ AudioChange
    \/ MainLoop
    \/ \E o \in 1..MaxSurfaces : FrameDone(o)

SpecWayland == InitWayland /\ [][NextWayland]_vars

\* the main loop keeps turning and the compositor delivers every frame
\* callback it owes; the audio and the configure events are free
SpecWaylandLive ==
    /\ InitWayland
    /\ [][NextWayland]_vars
    /\ WF_vars(MainLoop)
    /\ \A o \in 1..MaxSurfaces : WF_vars(FrameDone(o))

-----------------------------------------------------------------------------
(* The capture thread (capture.rs 185-234), the AudioCapture handle and    *)
(* the watch channel of create_audio_pipeline.  An AudioData is named by   *)
(* the number of the block it was computed from.                           *)

\* the blocks pulse.read delivers
MaxBlocks == 3

\* the clones of the watch receiver
MaxReceivers == 2

\* the iterations followed after the loop should have ended
MaxAfter == 3

InitCapture ==
    /\ CaptureIdle
    /\ WaylandIdle
    /\ IpcIdle
    /\ HistoryIdle
    /\ BinsIdle
    /\ ColorIdle
    /\ AnalyzerIdle
    /\ CanvasIdle
    /\ LayoutIdle
    /\ RenderIdle
    /\ VisualizerIdle

capture_others == <<analyzer_vars, canvas_vars, layout_vars, render_vars,
                    visualizer_vars, bins_vars, color_vars, history_vars, ipc_vars,
                    wayland_vars>>

\* the loop should have ended: the handle was dropped or no receiver is left
capture_stopped == stop_flag \/ cap_receivers = 0

\* if stop_flag.load(Relaxed) { break; }
LoopTop ==
    /\ cap_pc = "top"
    /\ cap_after < MaxAfter
    /\ cap_pc' = IF stop_flag THEN "exited" ELSE "read"
    /\ cap_after' = IF ~stop_flag /\ capture_stopped THEN cap_after + 1 ELSE cap_after
    /\ UNCHANGED <<stop_flag, cap_receivers, cap_channel, cap_data, cap_sent,
                   cap_seen, capture_others>>

\* pulse.read fails: warn, continue
ReadError ==
    /\ cap_pc = "read"
    /\ cap_pc' = "top"
    /\ UNCHANGED <<stop_flag, cap_receivers, cap_channel, cap_data, cap_sent,
                   cap_seen, cap_after, capture_others>>

\* pulse.read succeeds; the block is mixed down and processed
ReadBlock ==
    /\ cap_pc = "read"
    /\ cap_data < MaxBlocks
    /\ cap_data' = cap_data + 1
    /\ cap_pc' = "send"
    /\ UNCHANGED <<stop_flag, cap_receivers, cap_channel, cap_sent, cap_seen,
                   cap_after, capture_others>>

\* sender.send(Arc::new(audio_data)): replaces the value, or fails when no
\* receiver is left and the loop breaks
Send ==
    /\ cap_pc = "send"
    /\ IF cap_receivers = 0
       THEN /\ cap_pc' = "exited"
            /\ UNCHANGED <<cap_channel, cap_sent>>
       ELSE /\ cap_pc' = "top"
            /\ cap_channel' = cap_data
            /\ cap_sent' = cap_data
    /\ UNCHANGED <<stop_flag, cap_receivers, cap_data, cap_seen, cap_after,
                   capture_others>>

\* impl Drop for AudioCapture: stop_flag.store(true)
DropCapture ==
    /\ ~stop_flag
    /\ stop_flag' = TRUE
    /\ UNCHANGED <<cap_pc, cap_receivers, cap_channel, cap_data, cap_sent,
                   cap_seen, cap_after, capture_others>>

\* a receiver is cloned
CloneReceiver ==
    /\ cap_receivers > 0
    /\ cap_receivers < MaxReceivers
    /\ cap_receivers' = cap_receivers + 1
    /\ UNCHANGED <<cap_pc, stop_flag, cap_channel, cap_data, cap_sent, cap_seen,
                   cap_after, capture_others>>

\* a receiver is dropped
DropReceiver ==
    /\ cap_receivers > 0
    /\ cap_receivers' = cap_receivers - 1
    /\ UNCHANGED <<cap_pc, stop_flag, cap_channel, cap_data, cap_sent, cap_seen,
                   cap_after, capture_others>>

\* rx.borrow().clone() in a render loop
Borrow ==
    /\ cap_receivers > 0
    /\ cap_seen' = <<cap_channel, cap_sent>>
    /\ UNCHANGED <<cap_pc, stop_flag, cap_receivers, cap_channel, cap_data,
                   cap_sent, cap_after, capture_others>>

NextCapture ==
    \/ LoopTop
    \/ ReadError
    \/ ReadBlock
    \/ Send
    \/ DropCapture
    \/ CloneReceiver
    \/ DropReceiver
    \/ Borrow

SpecCapture == InitCapture /\ [][NextCapture]_vars

-----------------------------------------------------------------------------
(* VisualizerState: new, then update, next_style and prev_style calls.     *)

\* VisualizerConfig.style: none, each style name, one in another case, one
\* that names no style
ConfiguredStyles ==
    {NoString, SomeString(<<"w", "A", "v", "E">>), SomeString(<<"B", "a", "r", "s">>)}
    \cup {SomeString(VISUALIZER_STYLES[k]) : k \in 1..Len(VISUALIZER_STYLES)}

\* the delta-times of update, in 1/Scale seconds
DeltaTimes == {0, 1, 2}

\* VisualizerState::new(visualizer_config, text_config)
InitVisualizer ==
    /\ \E style \in ConfiguredStyles :
          /\ visualizer_config = [style |-> style]
          /\ current_style = initial_style(style)
    /\ \E speed \in {Scale, 2 * Scale} :
          text_animator = TextAnimator_new([TextOff EXCEPT !.animation_speed = speed])
    /\ state_time = 0
    /\ style_trace = <<>>
    /\ AnalyzerIdle
    /\ CanvasIdle
    /\ LayoutIdle
    /\ RenderIdle
    /\ OthersIdle

\* the last two entries of the style calls, the newest last
traced(op) ==
    LET t == Append(style_trace, [op |-> op, before |-> current_style])
    IN  IF Len(t) > 2 THEN Tail(t) ELSE t

\* VisualizerState::update(dt)
Update(dt) ==
    /\ state_time + dt <= MaxTime
    /\ state_time' = state_time + dt
    /\ text_animator' = TextAnimator_update(text_animator, dt)
    /\ UNCHANGED <<visualizer_config, current_style, style_trace>>
    /\ UNCHANGED <<analyzer_vars, canvas_vars, layout_vars, render_vars, other_vars>>

\* VisualizerState::next_style()
NextStyle ==
    /\ current_style' = next_style(current_style)
    /\ style_trace' = traced("next_style")
    /\ UNCHANGED <<visualizer_config, text_animator, state_time>>
    /\ UNCHANGED <<analyzer_vars, canvas_vars, layout_vars, render_vars, other_vars>>

\* VisualizerState::prev_style()
PrevStyle ==
    /\ current_style' = prev_style(current_style)
    /\ style_trace' = traced("prev_style")
    /\ UNCHANGED <<visualizer_config, text_animator, state_time>>
    /\ UNCHANGED <<analyzer_vars, canvas_vars, layout_vars, render_vars, other_vars>>

NextVisualizer ==
    \/ \E dt \in DeltaTimes : Update(dt)
    \/ NextStyle
    \/ PrevStyle

SpecVisualizer == InitVisualizer /\ [][NextVisualizer]_vars

-----------------------------------------------------------------------------
(* Claims about the analyzer, checked under SpecAnalyzer.                  *)

\* the bar magnitudes the last process call computed before smoothing
raw_magnitudes == calculate_bar_magnitudes(buffer, sensitivity, num_bars)

\* C1: after any sequence of process calls the returned frequencies have
\* exactly num_bars elements and every element lies in [0, 1].
C1_FrequenciesInUnitRange ==
    calls > 0 =>
        /\ Len(audio_data.frequencies) = num_bars
        /\ \A i \in 1..Len(audio_data.frequencies) :
              /\ 0 <= audio_data.frequencies[i]
              /\ audio_data.frequencies[i] <= Scale

\* a second or later call, on a block whose spectrum is NaN, with a bar clamped
\* to 1.0 next to the unpaired zero bar of an odd bar count
C1_Witness ==
    /\ calls >= 2
    /\ buffer.nan
    /\ num_bars = 3
    /\ smoothing = 0
    /\ audio_data.frequencies = <<Scale, Scale, 0>>

\* C5: each returned frequency is previous * s + raw * (1 - s), within the
\* rounding of the two products, where previous is what the preceding call
\* returned (0 before the first call); the returned values are stored as
\* previous for the next call.
C5_SmoothingLaw ==
    calls > 0 =>
        /\ previous_magnitudes = audio_data.frequencies
        /\ Len(audio_data.frequencies) = num_bars
        /\ \A i \in 1..num_bars :
              LET exact == prev_returned[i] * smoothing
                           + raw_magnitudes[i] * (SmoothingDen - smoothing)
                  got == audio_data.frequencies[i] * SmoothingDen
              IN  /\ got <= exact
                  /\ exact < got + 2 * SmoothingDen

\* a later call that blends a non-zero previous value with a different raw one
C5_Witness ==
    /\ calls >= 2
    /\ smoothing = 7
    /\ \E i \in 1..num_bars :
          /\ prev_returned[i] > 0
          /\ raw_magnitudes[i] > 0
          /\ raw_magnitudes[i] # prev_returned[i]
          /\ audio_data.frequencies[i] # raw_magnitudes[i]

\* C6: with num_bars = 0 or an empty sample block, process returns an all-zero
\* result (all frequencies 0, intensity 0, bass 0), whatever calls preceded it.
C6_AllZeroOnDegenerateInput ==
    (calls > 0 /\ (num_bars = 0 \/ last_len = 0)) =>
        /\ \A i \in 1..Len(audio_data.frequencies) : audio_data.frequencies[i] = 0
        /\ audio_data.intensity = 0
        /\ audio_data.bass = 0

\* C7: for even num_bars >= 2 the lowest band's magnitude is at both outer
\* indices and the highest band's magnitude at the two central indices.
C7_BassOnEdges ==
    (calls > 0 /\ num_bars >= 2 /\ num_bars % 2 = 0) =>
        LET half == num_bars \div 2
            hm == half_magnitudes(buffer, sensitivity, num_bars)
        IN  /\ raw_magnitudes[1] = hm[1]
            /\ raw_magnitudes[num_bars] = hm[1]
            /\ raw_magnitudes[half] = hm[half]
            /\ raw_magnitudes[half + 1] = hm[half]

-----------------------------------------------------------------------------
(* Claims about the Canvas, checked under SpecCanvas.                      *)

\* C2: put_pixel(x, y, ..) with x >= width or y >= height leaves every byte
\* of the canvas buffer unchanged.
C2_OutOfBoundsPutPixelIsNoOp ==
    (last_op.op = "put_pixel"
        /\ (last_op.x >= canvas.width \/ last_op.y >= canvas.height)) =>
        canvas.data = pre_canvas.data

\* C4: write_argb8888 writes [B, G, R, A] of pixel i to dest[4i..4i+4] for
\* every i < width * height, writes no other byte of dest, and leaves the
\* canvas unchanged.
C4_WriteArgbIsPermutation ==
    last_op.op = "write_argb8888" =>
        LET n == canvas.width * canvas.height
        IN  /\ \A i \in 0..(n - 1) :
                  /\ dest[4 * i + 1] = canvas.data[4 * i + 3]
                  /\ dest[4 * i + 2] = canvas.data[4 * i + 2]
                  /\ dest[4 * i + 3] = canvas.data[4 * i + 1]
                  /\ dest[4 * i + 4] = canvas.data[4 * i + 4]
            /\ \A k \in (4 * n + 1)..Len(dest) : dest[k] = DestFill
            /\ canvas = pre_canvas

\* a painted pixel whose R and B differ is converted into a longer slice
C4_Witness ==
    /\ last_op.op = "write_argb8888"
    /\ canvas.width * canvas.height >= 2
    /\ Len(dest) > canvas.width * canvas.height * 4
    /\ \E i \in 0..(canvas.width * canvas.height - 1) :
          /\ canvas.data[4 * i + 1] = 255
          /\ canvas.data[4 * i + 3] = 64
          /\ dest[4 * i + 1] = 64
          /\ dest[4 * i + 3] = 255

-----------------------------------------------------------------------------
(* Claims about the bar layout, checked under SpecLayout.                  *)

\* the source index of a magnitude of layout_args.frequencies (all distinct)
source_index(m) ==
    CHOOSE k \in 0..(Len(layout_args.frequencies) - 1) :
        layout_args.frequencies[k + 1] = m

\* C8: under mirror = true, reverse_mirror = false, whenever a layout is
\* produced (N >= 1, displayable >= 1) the first and the last element of
\* render_frequencies are both read from source index 0.
C8_MirrorEndsFromLowestBand ==
    (layout_calls > 0 /\ layout.some
        /\ layout_args.params.mirror /\ ~layout_args.params.reverse_mirror) =>
        /\ source_index(layout.render_frequencies[1]) = 0
        /\ source_index(layout.render_frequencies[layout.displayable]) = 0

\* a mirrored layout of at least four bars whose inner bars come from higher
\* source indices than its two ends
C8_Witness ==
    /\ layout_calls > 0
    /\ layout.some
    /\ layout_args.params.mirror
    /\ ~layout_args.params.reverse_mirror
    /\ layout.displayable >= 4
    /\ source_index(layout.render_frequencies[2]) > 0
    /\ source_index(layout.render_frequencies[layout.displayable - 1]) > 0
    /\ source_index(layout.render_frequencies[layout.displayable]) = 0

-----------------------------------------------------------------------------
(* Claims about render_frame, checked under SpecRender.                    *)

\* C3: after a render_frame call the canvas equals what the same call draws
\* on a freshly zeroed canvas of the same size, whatever style the call
\* before it drew with the same FrameData.
C3_FrameFullyOverwrites ==
    last_op.op = "render_frame" =>
        canvas = render_frame(Canvas_new(canvas.width, canvas.height),
                              frame_data, render_params)

\* a second call in another style has zeroed a pixel the first style had set
C3_Witness ==
    /\ last_op.op = "render_frame"
    /\ erased
    /\ bar_pixels > 0

\* C9: for non-empty frequencies of length N and a non-empty bar band,
\* displayable = min(width / slot_width, N) wherever the quotient is defined
\* (slot_width >= 1); displayable is at most N, render_frequencies has
\* displayable elements, and when displayable is 0 there is no layout and
\* render_bars makes no put_pixel call.
C9_DisplayableBars ==
    LET a == layout_args
        tc == a.params.text_config
        text_height == IF tc.show_title \/ tc.show_artist
                       THEN text_band + tc.margin_top + tc.margin_bottom ELSE 0
        band == IF tc.position \in {"Top", "Bottom"}
                THEN saturating_sub(a.height, text_height) ELSE a.height
        slot == a.params.bar_width + a.params.bar_spacing
        N == Len(a.frequencies)
    IN  (last_op.op = "render_frame" /\ N > 0 /\ band > 0) =>
            /\ slot > 0 => layout.displayable = Min(a.width \div slot, N)
            /\ layout.displayable <= N
            /\ Len(layout.render_frequencies) = layout.displayable
            /\ layout.some <=> layout.displayable > 0
            /\ layout.displayable = 0 => bar_pixels = 0

\* a frame whose canvas holds fewer slots than there are frequencies and draws
\* bars
C9_Witness ==
    /\ last_op.op = "render_frame"
    /\ layout.some
    /\ layout.displayable = 2
    /\ layout.displayable < Len(layout_args.frequencies)
    /\ layout.slot_width = 2
    /\ bar_pixels > 0

\* C10: when bar_width + bar_spacing = 0, render_bars writes no pixel, in
\* every style: drawn on a zeroed canvas, the bars leave every byte zero.
C10_ZeroSlotDrawsNothing ==
    (last_op.op = "render_frame"
        /\ render_params.bar_width + render_params.bar_spacing = 0) =>
        render_bars(Canvas_new(canvas.width, canvas.height),
                    frame_data.frequencies, render_params)
            = Canvas_new(canvas.width, canvas.height)

-----------------------------------------------------------------------------
(* Claims about the classic example, checked under SpecClassic.            *)

\* the topmost row of column x that holds a painted (alpha > 0) pixel, or
\* the canvas height when the column is empty
top_row(x) ==
    LET painted == {y \in 0..(canvas.height - 1) :
                       get_pixel(canvas, x, y)[4] > 0}
    IN  IF painted = {} THEN canvas.height
        ELSE CHOOSE y \in painted : \A z \in painted : y <= z

\* the frequencies of the example
ExampleFrequencies ==
    [i \in 1..8 |-> IF i % 2 = 1 THEN Scale \div 10 ELSE (9 * Scale) \div 10]

\* C11 as stated: on the example displayable = 8, every 0.9 bar has its
\* topmost painted row at row 3 and every 0.1 bar at row 35.
C11_ClassicExampleAsStated ==
    (last_op.op = "render_frame" /\ frame_data.frequencies = ExampleFrequencies) =>
        /\ layout.displayable = 8
        /\ \A i \in 0..7 : \A bx \in 0..7 :
              top_row(layout.start_x + i * layout.slot_width + bx)
                  = IF frame_data.frequencies[i + 1] = (9 * Scale) \div 10
                    THEN 3 ELSE 35

\* C11 amended: for eight bars of magnitude 0.1 or 0.9 (the example among
\* them) displayable = 8, every 0.9 bar paints 36 rows, its topmost at row 4
\* (40 - 36), every 0.1 bar 4 rows, its topmost at row 36 (40 - 4), and the
\* two spacing columns after each bar stay empty.
C11_ClassicExample ==
    last_op.op = "render_frame" =>
        /\ layout.displayable = 8
        /\ \A i \in 0..7 :
              /\ \A bx \in 0..7 :
                    top_row(layout.start_x + i * layout.slot_width + bx)
                        = IF frame_data.frequencies[i + 1] = (9 * Scale) \div 10
                          THEN 4 ELSE 36
              /\ \A bx \in 8..9 :
                    top_row(layout.start_x + i * layout.slot_width + bx) = 40

\* the example itself has been drawn: the second bar is painted at row 4 and
\* not above, the first at row 36
C11_Witness ==
    /\ last_op.op = "render_frame"
    /\ frame_data.frequencies = ExampleFrequencies
    /\ get_pixel(canvas, 10, 4)[4] > 0
    /\ get_pixel(canvas, 10, 3)[4] = 0
    /\ get_pixel(canvas, 0, 36)[4] > 0
    /\ get_pixel(canvas, 0, 35)[4] = 0

-----------------------------------------------------------------------------
(* Claims about VisualizerState, checked under SpecVisualizer.             *)

\* C12: current_style stays within 0..7; next_style from 7 gives 0,
\* prev_style from 0 gives 7, and a prev_style call right after a next_style
\* call (or the reverse) restores the style the first of the two started from.
C12_StyleWraps ==
    /\ current_style \in 0..7
    /\ Len(style_trace) >= 1 =>
          LET last == style_trace[Len(style_trace)]
          IN  /\ (last.op = "next_style" /\ last.before = 7) => current_style = 0
              /\ (last.op = "prev_style" /\ last.before = 0) => current_style = 7
    /\ (Len(style_trace) = 2 /\ style_trace[1].op # style_trace[2].op) =>
          current_style = style_trace[1].before

\* prev_style has just undone a next_style that wrapped from 7 to 0
C12_Witness ==
    /\ Len(style_trace) = 2
    /\ style_trace[1] = [op |-> "next_style", before |-> 7]
    /\ style_trace[2] = [op |-> "prev_style", before |-> 0]
    /\ current_style = 7
    /\ state_time > 0

-----------------------------------------------------------------------------
(* Claims about the canvas buffer, checked under SpecCanvas.               *)

\* C13: the backing buffer is never shorter than width * height * 4 and no
\* operation shortens it; resize grows it (to exactly the needed length,
\* keeping the old bytes and zero-filling the rest) only when it is shorter
\* than the new width * height * 4, and otherwise leaves its bytes untouched.
C13_BufferNeverShrinks ==
    /\ Len(canvas.data) >= canvas.width * canvas.height * 4
    /\ Len(canvas.data) >= Len(pre_canvas.data)
    /\ last_op.op = "resize" =>
          LET needed == last_op.x * last_op.y * 4
              old == pre_canvas.data
          IN  /\ canvas.width = last_op.x
              /\ canvas.height = last_op.y
              /\ Len(old) >= needed => canvas.data = old
              /\ Len(old) < needed =>
                    /\ Len(canvas.data) = needed
                    /\ \A i \in 1..needed :
                          canvas.data[i] = IF i <= Len(old) THEN old[i] ELSE 0

\* a resize to smaller dimensions has kept a longer buffer with painted bytes
C13_Witness ==
    /\ last_op.op = "resize"
    /\ Len(pre_canvas.data) > last_op.x * last_op.y * 4
    /\ last_op.x * last_op.y > 0
    /\ \E i \in (last_op.x * last_op.y * 4 + 1)..Len(canvas.data) : canvas.data[i] # 0

-----------------------------------------------------------------------------
(* Claims about degenerate frames, checked under SpecDegenerate.           *)

-----------------------------------------------------------------------------
(* Claims about the metrics of process, checked under SpecAnalyzer.        *)

\* C15: for every bar count N, bass is the mean of the first floor(N/3)
\* returned frequencies, and those bars carry the lowest frequency bands:
\* bar i of them holds the magnitude of band i, counted from the lowest.
C15_BassIsLowestThird ==
    calls > 0 =>
        LET third == num_bars \div 3
            hm == half_magnitudes(buffer, sensitivity, num_bars)
        IN  /\ audio_data.bass =
                   f32_mean(SumSeq(SubSeq(audio_data.frequencies, 1, third)), third)
            /\ \A i \in 1..third : raw_magnitudes[i] = hm[i]

-----------------------------------------------------------------------------
(* Claims about the sampling order and the centring of the layout, checked *)
(* under SpecLayout.                                                       *)

\* the source index element i (0-based) of render_frequencies is read from
layout_source(i) == source_index(layout.render_frequencies[i + 1])

\* C16: under mirror = true, reverse_mirror = true with displayable >= 2,
\* elements 0 and displayable - 1 come from the highest source index sampled
\* in their half, elements half - 1 and half (half = displayable / 2) both
\* come from source index 0, and the source indices do not increase toward
\* the centre on either side.
C16_ReverseMirrorOrder ==
    (layout_calls > 0 /\ layout.some /\ layout.displayable >= 2
        /\ layout_args.params.mirror /\ layout_args.params.reverse_mirror) =>
        LET d == layout.displayable
            half == d \div 2
        IN  /\ \A i \in 0..(half - 1) : layout_source(i) <= layout_source(0)
            /\ \A i \in half..(d - 1) : layout_source(i) <= layout_source(d - 1)
            /\ layout_source(half - 1) = 0
            /\ layout_source(half) = 0
            /\ \A i \in 0..(half - 2) : layout_source(i) >= layout_source(i + 1)
            /\ \A i \in half..(d - 2) : layout_source(i) <= layout_source(i + 1)

\* a reverse-mirrored layout of five bars: both ends read from above index 0,
\* the right half samples more indices than the left one
C16_Witness ==
    /\ layout_calls > 0
    /\ layout.some
    /\ layout_args.params.mirror
    /\ layout_args.params.reverse_mirror
    /\ layout.displayable = 5
    /\ layout_source(0) > 0
    /\ layout_source(1) = 0
    /\ layout_source(2) = 0
    /\ layout_source(3) > 0
    /\ layout_source(4) > layout_source(3)

\* C17: without mirror, element i of render_frequencies is
\* frequencies[floor(i * N / displayable)] when reverse_mirror is off, and
\* with reverse_mirror on the sequence is exactly that one reversed.
C17_ReverseIsReversal ==
    (layout_calls > 0 /\ layout.some /\ ~layout_args.params.mirror) =>
        LET d == layout.displayable
            N == Len(layout_args.frequencies)
            forward == [k \in 1..d |-> layout_args.frequencies[((k - 1) * N) \div d + 1]]
        IN  /\ Len(layout.render_frequencies) = d
            /\ \A k \in 1..d :
                  layout.render_frequencies[k] =
                      IF layout_args.params.reverse_mirror
                      THEN forward[d + 1 - k]
                      ELSE forward[k]

\* a reversed layout of at least three bars that samples fewer bars than there
\* are frequencies: it starts at a high source index and ends at index 0
C17_Witness ==
    /\ layout_calls > 0
    /\ layout.some
    /\ ~layout_args.params.mirror
    /\ layout_args.params.reverse_mirror
    /\ layout.displayable >= 3
    /\ layout.displayable < Len(layout_args.frequencies)
    /\ layout_source(0) > layout_source(1)
    /\ layout_source(layout.displayable - 1) = 0

\* C18: in every layout start_x = floor((width - displayable * slot_width) / 2)
\* and start_x + displayable * slot_width <= width.
C18_BarsCentred ==
    (layout_calls > 0 /\ layout.some) =>
        LET total_width ==
                layout.displayable
                * (layout_args.params.bar_width + layout_args.params.bar_spacing)
        IN  /\ layout.start_x = (layout_args.width - total_width) \div 2
            /\ layout.start_x + total_width <= layout_args.width

\* bars of slot width 2 or more that leave an odd number of columns free, at
\* least three: the left margin is the smaller half
C18_Witness ==
    /\ layout_calls > 0
    /\ layout.some
    /\ layout.slot_width >= 2
    /\ layout.displayable >= 1
    /\ (layout_args.width - layout.displayable * layout.slot_width) % 2 = 1
    /\ layout.start_x >= 1
    /\ 2 * layout.start_x + 1 + layout.displayable * layout.slot_width = layout_args.width

-----------------------------------------------------------------------------
(* Claims about the text of a frame, checked under SpecText.               *)

\* the fields render_text may show: those enabled and present, title first
shown_fields ==
    (IF render_params.text_config.show_title /\ frame_data.track_title.some
     THEN <<frame_data.track_title.chars>> ELSE <<>>)
    \o (IF render_params.text_config.show_artist /\ frame_data.track_artist.some
        THEN <<frame_data.track_artist.chars>> ELSE <<>>)

\* C19: with both show flags off render_text draws nothing; otherwise the
\* text drawn is made of exactly the fields that are enabled and present,
\* "title - artist" when both are, and the placeholder when none is.
C19_DisplayText ==
    last_op.op = "render_frame" =>
        LET tc == render_params.text_config
            bars == render_bars(clear(pre_canvas), frame_data.frequencies, render_params)
            expected ==
                CASE Len(shown_fields) = 0 -> placeholder
                  [] Len(shown_fields) = 1 -> shown_fields[1]
                  [] OTHER -> shown_fields[1] \o <<" ", "-", " ">> \o shown_fields[2]
            m == [text_metrics(bars, frame_data, render_params) EXCEPT !.text = expected]
        IN  /\ (~tc.show_title /\ ~tc.show_artist) => canvas = bars
            /\ (tc.show_title \/ tc.show_artist) =>
                  /\ display_text(tc, frame_data.track_title,
                                  frame_data.track_artist).text = expected
                  /\ canvas = put_pixels(fill_background(bars, m, render_params),
                                         text_pixels(bars, m, frame_data, render_params))

\* title and artist shown and present: the fifth character is the artist's
\* "B", in the artist colour, after the title's "A" in the title colour
C19_Witness ==
    /\ last_op.op = "render_frame"
    /\ render_params.text_config.show_title
    /\ render_params.text_config.show_artist
    /\ ~render_params.text_config.use_color_scheme
    /\ frame_data.track_title = SomeString(<<"A">>)
    /\ frame_data.track_artist = SomeString(<<"B">>)
    /\ get_pixel(canvas, 3, 10) = <<255, 255, 255, 255>>
    /\ get_pixel(canvas, 37, 10) = <<200, 200, 200, 255>>

-----------------------------------------------------------------------------
(* Claims about a glyph, checked under SpecGlyph.                          *)

\* the pixels of the canvas with a non-zero alpha
painted ==
    {q \in (0..(canvas.width - 1)) \X (0..(canvas.height - 1)) :
        get_pixel(canvas, q[1], q[2])[4] > 0}

\* the union of the k-by-k blocks at (x + col*k, y + row*k) over the set
\* bits (row, col) of the bitmap of ch, column 0 being the leftmost
glyph_blocks(x, y, ch, k) ==
    LET bitmap == get_char_bitmap(ch)
        set_bits == IF bitmap = <<>> THEN {}
                    ELSE {rc \in (0..7) \X (0..7) :
                            (bitmap[rc[1] + 1] \div 2 ^ (7 - rc[2])) % 2 = 1}
    IN  UNION {{<<x + rc[2] * k + sx, y + rc[1] * k + sy>> :
                    sx \in 0..(k - 1), sy \in 0..(k - 1)} : rc \in set_bits}

\* C20: a glyph drawn by render_char at (x, y) with scale k paints exactly
\* the pixels of the k-by-k blocks of its set bits, as far as they lie on the
\* canvas (all of them when the 8k-by-8k region fits), and nothing else; the
\* pixels of "A" at scale 3 lie inside the 24x24 region starting at (x, y).
C20_GlyphBlocks ==
    last_op.op = "render_char" =>
        LET x == last_op.x
            y == last_op.y
            k == last_op.scale
            blocks == glyph_blocks(x, y, last_op.ch, k)
        IN  /\ painted = {q \in blocks : q[1] < canvas.width /\ q[2] < canvas.height}
            /\ (x + 8 * k <= canvas.width /\ y + 8 * k <= canvas.height) =>
                  painted = blocks
            /\ (last_op.ch = "A" /\ k = 3) =>
                  \A q \in painted : /\ x <= q[1] /\ q[1] < x + 24
                                      /\ y <= q[2] /\ q[2] < y + 24

\* a whole "B" at scale 3: the block of its top left set bit is painted, the
\* column left of it and the block of its clear last column are not
C20_Witness ==
    /\ last_op.op = "render_char"
    /\ last_op.ch = "B"
    /\ last_op.scale = 3
    /\ last_op.x = 3 /\ last_op.y = 3
    /\ canvas.width = GlyphCanvas
    /\ get_pixel(canvas, 6, 3)[4] > 0
    /\ get_pixel(canvas, 8, 5)[4] > 0
    /\ get_pixel(canvas, 5, 3)[4] = 0
    /\ get_pixel(canvas, 24, 3)[4] = 0
    /\ Cardinality(painted) > 9

-----------------------------------------------------------------------------
(* Claims about the spectrogram style, checked under SpecSpectrogram.      *)

\* the RGBA bytes the spectrogram writes at column x for a history entry
strip_pixel(slice, x, width, params) ==
    LET magnitude == slice[Min((x * Len(slice)) \div width, Len(slice) - 1) + 1]
        color == get_color(params.color_scheme, ratio(x, width), magnitude)
        opacity == (params.opacity * Max(magnitude, 5)) \div Scale
    IN  <<as_u8((color[1] * opacity) \div Scale), as_u8((color[2] * opacity) \div Scale),
          as_u8((color[3] * opacity) \div Scale), as_u8((opacity * 255) \div Scale)>>

\* C21: the spectrogram paints the history newest at the bottom and bounded
\* to the band: for k < min(len(history), bars_height) the row
\* bars_y_start + bars_height - 1 - k shows history[len - 1 - k], and no
\* other row is painted.
C21_SpectrogramNewestAtBottom ==
    (last_op.op = "render_bars" /\ render_params.style = 6 /\ layout.some) =>
        LET history == render_params.spectrogram_history
            len == Len(history)
            shown == Min(len, layout.bars_height)
            bottom == layout.bars_y_start + layout.bars_height - 1
        IN  \A y \in 0..(canvas.height - 1), x \in 0..(canvas.width - 1) :
                get_pixel(canvas, x, y) =
                    IF bottom - shown < y /\ y <= bottom
                    THEN strip_pixel(history[len - (bottom - y)], x,
                                     canvas.width, render_params)
                    ELSE <<0, 0, 0, 0>>

\* a history longer than the band, drawn below a reserved text band: the
\* band is full, its rows differ, and the row above it is empty
C21_Witness ==
    /\ last_op.op = "render_bars"
    /\ render_params.style = 6
    /\ layout.some
    /\ layout.bars_y_start > 0
    /\ layout.bars_height = 3
    /\ Len(render_params.spectrogram_history) = MaxHistory
    /\ get_pixel(canvas, 0, layout.bars_y_start)[4] > 0
    /\ get_pixel(canvas, 0, layout.bars_y_start)
          # get_pixel(canvas, 0, layout.bars_y_start + 2)
    /\ get_pixel(canvas, 0, layout.bars_y_start - 1)[4] = 0

-----------------------------------------------------------------------------
(* Claims about the bin ranges, checked under SpecBins.                    *)

\* C22: for every bar count and sample rate the bin range of bar i + 1
\* starts and ends no lower than the range of bar i, and every range holds
\* at least one bin of the first half of the FFT output.
C22_BinRangesMonotonic ==
    /\ \A i \in 1..(Len(bin_ranges) - 1) :
          /\ bin_ranges[i + 1].start >= bin_ranges[i].start
          /\ bin_ranges[i + 1].end >= bin_ranges[i].end
    /\ \A i \in 1..Len(bin_ranges) :
          /\ 0 <= bin_ranges[i].start
          /\ bin_ranges[i].start < bin_ranges[i].end
          /\ bin_ranges[i].start < useful_bins
          /\ bin_ranges[i].end <= useful_bins

\* sixteen bars at the host's sample rate: eight ranges from bin 2 up to bin
\* 465, rising
C22_Witness ==
    /\ bin_rate = sample_rate
    /\ bin_bars = 16
    /\ Len(bin_ranges) = 8
    /\ bin_ranges[1] = [start |-> 2, end |-> 5]
    /\ bin_ranges[8].end = 465
    /\ \A i \in 1..7 : bin_ranges[i + 1].start > bin_ranges[i].start

-----------------------------------------------------------------------------
(* Claims about the colour schemes, checked under SpecColor.               *)

\* C23: Monochrome.get_color returns a gray (R = G = B) for every position
\* and every intensity in [0, 1]; of two calls the one with the higher
\* intensity never returns the darker gray, and two calls with the same
\* intensity return the same gray whatever their positions.
C23_MonochromeGray ==
    color_in.scheme = "Monochrome" =>
        /\ color_out[1] = color_out[2]
        /\ color_out[2] = color_out[3]
        /\ color_out[1] \in 0..255
        /\ color_prev.in.scheme = "Monochrome" =>
              /\ color_prev.in.intensity <= color_in.intensity =>
                    color_prev.out[1] <= color_out[1]
              /\ color_prev.in.intensity = color_in.intensity =>
                    color_prev.out = color_out

\* Monochrome.get_color(0.5, 0.8) after a call at another position with a
\* lower intensity: a brighter gray
C23_Witness ==
    /\ color_in = [scheme |-> "Monochrome", position |-> Scale \div 2, intensity |-> 80]
    /\ color_out = <<163, 163, 163>>
    /\ color_prev.in.scheme = "Monochrome"
    /\ color_prev.in.position = 0
    /\ color_prev.in.intensity = 33
    /\ color_prev.out[1] > 0
    /\ color_prev.out[1] < 163

-----------------------------------------------------------------------------
(* Claims about the host's spectrogram history, checked under SpecHistory. *)

\* C24: after every frame's push-and-trim step the history is no longer
\* than the canvas height of that frame and holds the most recent snapshots
\* in the order they were pushed, oldest first, also when the height has
\* shrunk since the frame before.
C24_HistoryBoundedFifo ==
    LET len == Len(spectrogram_history)
    IN  /\ len <= Len(pushed)
        /\ Len(pushed) > 0 =>
              /\ len <= history_height
              /\ spectrogram_history = SubSeq(pushed, Len(pushed) - len + 1, Len(pushed))
              /\ history_height > 0 => spectrogram_history[len] = pushed[Len(pushed)]

\* the height has shrunk below the length of the history: the two newest
\* snapshots are left, the older ones evicted
C24_Witness ==
    /\ Len(pushed) = 5
    /\ history_height = 2
    /\ spectrogram_history = <<4, 5>>

-----------------------------------------------------------------------------
(* Claims about the bar area, checked under SpecBand. *)

\* the rows reserved for the text when it is shown at Top or Bottom
reserved_rows(height, tc) ==
    LET text_height == IF tc.show_title \/ tc.show_artist
                       THEN text_band + tc.margin_top + tc.margin_bottom
                       ELSE 0
    IN  CASE tc.position = "Top" -> 0..(Min(text_height, height) - 1)
          [] tc.position = "Bottom" -> saturating_sub(height, text_height)..(height - 1)
          [] OTHER -> {}

\* C25: for every style 0-7 and magnitudes in [0, 1] every pixel render_bars
\* writes lies in rows [bars_y_start, bars_y_start + bars_height) and columns
\* [0, width), so with the text at Top or Bottom no pixel of the text band is
\* written: the band's bytes are the ones before the call.
C25_BarsStayInBand ==
    (last_op.op = "render_bars") =>
        LET ws == render_bars_pixels(pre_canvas, frame_data.frequencies, render_params)
            reserved == reserved_rows(canvas.height, render_params.text_config)
        IN  /\ \A k \in 1..Len(ws) :
                  /\ 0 <= ws[k].x /\ ws[k].x < canvas.width
                  /\ layout.some
                  /\ layout.bars_y_start <= ws[k].y
                  /\ ws[k].y < layout.bars_y_start + layout.bars_height
                  /\ ws[k].y \notin reserved
            /\ \A y \in reserved, x \in 0..(canvas.width - 1) :
                  get_pixel(canvas, x, y) = get_pixel(pre_canvas, x, y)

\* a wave of magnitude 1 in a bar area of even height above a text band: its
\* lowest pixel is on the last row of the bar area, the row below is the
\* first of the text band
C25_Witness ==
    /\ last_op.op = "render_bars"
    /\ render_params.style = 2
    /\ render_params.text_config.position = "Bottom"
    /\ render_params.text_config.show_title
    /\ canvas.height = text_band + 2
    /\ frame_data.frequencies = <<Scale>>
    /\ layout.some /\ layout.bars_height = 2
    /\ \E x \in 0..(canvas.width - 1) : get_pixel(canvas, x, 1)[4] # 0

-----------------------------------------------------------------------------
(* Claims about the symmetry of process, checked under SpecAnalyzer.       *)

\* C30: after any sequence of process calls the returned frequencies are
\* mirror-symmetric about the center, frequencies[h-1-i] = frequencies[h+i]
\* for 0 <= i < h = floor(N/2) (Rust indices), and so are the magnitudes
\* stored for the smoothing of the next call.
C30_MirrorSymmetric ==
    calls > 0 =>
        LET h == num_bars \div 2
        IN  /\ Len(audio_data.frequencies) = num_bars
            /\ Len(previous_magnitudes) = num_bars
            /\ \A i \in 0..(h - 1) :
                  /\ audio_data.frequencies[h - 1 - i + 1]
                        = audio_data.frequencies[h + i + 1]
                  /\ previous_magnitudes[h - 1 - i + 1]
                        = previous_magnitudes[h + i + 1]

\* a smoothed later call on four or more bars whose two halves are not
\* constant: the pair at the center differs from the pair at the edges
C30_Witness ==
    /\ calls >= 2
    /\ smoothing = 7
    /\ num_bars >= 4
    /\ audio_data.frequencies[1] # audio_data.frequencies[num_bars \div 2]
    /\ audio_data.frequencies[1] > 0
    /\ prev_returned[num_bars \div 2] # audio_data.frequencies[num_bars \div 2]
    /\ prev_returned[1] # prev_returned[num_bars \div 2]

-----------------------------------------------------------------------------
(* Claims about the IPC protocol, checked under SpecIpc. *)

\* the connections whose command the render loop has taken off the channel
ipc_handled(c) ==
    /\ ipc_forwarded[c] > 0
    /\ \A k \in 1..Len(ipc_queue) : ipc_queue[k].reply # c

\* C26: every command parse_command accepts is answered by the render loop
\* with exactly one reply on its oneshot channel, and handling it never ends
\* the loop; a line that fails to parse gets exactly one "err" response and
\* is not forwarded.
C26_EveryCommandAnswered ==
    /\ render_loop.status = "running"
    /\ \A c \in 1..MaxClients :
          /\ ipc_handled(c) => Len(ipc_replies[c]) = 1
          /\ Len(ipc_replies[c]) <= 1
          /\ (ipc_clients[c].pc = "done" /\ ipc_clients[c].line # <<>>
                /\ ~parse_command(ipc_clients[c].line).ok) =>
                /\ Len(ipc_clients[c].written) = 1
                /\ ipc_clients[c].written[1][1] = "err"
                /\ ipc_forwarded[c] = 0

-----------------------------------------------------------------------------
(* Claims about the frame callbacks of the Wayland loop, checked under     *)
(* SpecWayland and, with fairness, SpecWaylandLive.                        *)

\* C27: each configured surface has at most one frame callback outstanding
\* at any time, whatever the interleaving of the active/idle transitions with
\* the deliveries of the frame callbacks.
C27_OneFrameCallback ==
    \A o \in 1..MaxSurfaces :
        wl_surfaces[o].configured => wl_surfaces[o].outstanding <= 1

-----------------------------------------------------------------------------
(* Claims about the capture thread, checked under SpecCapture. *)

\* C29: once the AudioCapture handle is dropped or the last receiver is
\* dropped the capture loop begins at most one further iteration before it
\* exits, also when the reads keep failing; and every send replaces the
\* channel value, so a reader observes the most recently sent AudioData.
C29_CaptureTerminates ==
    /\ cap_after <= 1
    /\ cap_channel = cap_sent
    /\ cap_seen[1] = cap_seen[2]

====
